---- MODULE Spec2Model ----
(***************************************************************************)
(* InterView AI: the interview session orchestrator, its audio coach, the   *)
(* JSON session repository and the API layer that keeps the live map of     *)
(* orchestrators.                                                           *)
(*                                                                          *)
(* Representation notes                                                     *)
(*   - Python str values that the code inspects character by character     *)
(*     (session ids, answer texts) are sequences of one-character strings.  *)
(*   - Optional[x] is a sequence of length at most one: None is <<>>.      *)
(*   - datetime values are integers counting hours on the variable now.    *)
(*   - float values are exact rationals <<numerator, denominator>> in      *)
(*     lowest terms (binary rounding of floats is not modelled).           *)
(***************************************************************************)
EXTENDS Integers, Sequences, FiniteSets, TLC

(***************************************************************************)
(* Bounds of the exploration                                                *)
(***************************************************************************)
\* calls made on the orchestrator, or requests received by the API
MaxCalls == 4
\* coroutines suspended at the same time
MaxInflight == 2

(***************************************************************************)
(* Generic helpers                                                          *)
(***************************************************************************)
None == <<>>
Some(x) == <<x>>

RECURSIVE GCD(_, _)
GCD(a, b) == IF b = 0 THEN a ELSE GCD(b, a % b)

\* a float that holds n/d
Rat(n, d) == IF n = 0 THEN <<0, 1>> ELSE <<n \div GCD(n, d), d \div GCD(n, d)>>
RatAdd(x, y) == Rat(x[1] * y[2] + y[1] * x[2], x[2] * y[2])
RatDivInt(x, k) == Rat(x[1], x[2] * k)
RatLess(x, y) == x[1] * y[2] < y[1] * x[2]
RatOfInt(n) == <<n, 1>>

RECURSIVE RatSum(_)
RatSum(s) == IF s = <<>> THEN <<0, 1>> ELSE RatAdd(s[1], RatSum(Tail(s)))

RECURSIVE SumSeq(_)
SumSeq(s) == IF s = <<>> THEN 0 ELSE s[1] + SumSeq(Tail(s))

IsPrefix(s, t) == Len(s) <= Len(t) /\ SubSeq(t, 1, Len(s)) = s

(***************************************************************************)
(* Python str operations on character sequences                             *)
(***************************************************************************)
IsSpace(c) == c \in {" ", "\t", "\n"}

\* str.lower() on the letters that occur in the modelled inputs
LowerChar(c) ==
    CASE c = "U" -> "u"
      [] c = "M" -> "m"
      [] c = "L" -> "l"
      [] c = "S" -> "s"
      [] c = "O" -> "o"
      [] OTHER -> c

Lower(text) == [i \in 1..Len(text) |-> LowerChar(text[i])]

\* bool(text.strip())
StripNonEmpty(text) == \E i \in 1..Len(text) : ~IsSpace(text[i])

\* text.split(): maximal runs of non-whitespace characters
RECURSIVE SplitFrom(_, _, _)
SplitFrom(text, i, cur) ==
    IF i > Len(text)
    THEN IF cur = <<>> THEN <<>> ELSE <<cur>>
    ELSE IF IsSpace(text[i])
         THEN IF cur = <<>> THEN SplitFrom(text, i + 1, <<>>)
              ELSE <<cur>> \o SplitFrom(text, i + 1, <<>>)
         ELSE SplitFrom(text, i + 1, Append(cur, text[i]))

Split(text) == SplitFrom(text, 1, <<>>)

\* list.count(x)
CountEq(words, w) == Cardinality({i \in 1..Len(words) : words[i] = w})

\* str.count(sub): non-overlapping occurrences, scanning left to right
RECURSIVE CountSubFrom(_, _, _)
CountSubFrom(text, sub, i) ==
    IF i + Len(sub) - 1 > Len(text) THEN 0
    ELSE IF SubSeq(text, i, i + Len(sub) - 1) = sub
         THEN 1 + CountSubFrom(text, sub, i + Len(sub))
         ELSE CountSubFrom(text, sub, i + 1)

CountSub(text, sub) == CountSubFrom(text, sub, 1)

(***************************************************************************)
(* src/core/domain/models.py                                                *)
(***************************************************************************)
InterviewState ==
    [IDLE |-> "idle", SETUP |-> "setup", INTRO |-> "intro",
     QUESTIONING |-> "questioning", LISTENING |-> "listening",
     EVALUATING |-> "evaluating", COMPLETE |-> "complete", ERROR |-> "error"]

StateNames == DOMAIN InterviewState

\* InterviewState(value): the member whose value is the given string
InterviewStateOf(value) == CHOOSE n \in StateNames : InterviewState[n] = value

CoachingAlertLevel == [OK |-> "ok", WARNING |-> "warning", CRITICAL |-> "critical"]

CoachingAlertLevelOf(value) ==
    CHOOSE n \in DOMAIN CoachingAlertLevel : CoachingAlertLevel[n] = value

CoachingFeedback(vol, pace, fillers, wpm, alert, level) ==
    [volume_status |-> vol, pace_status |-> pace, filler_count |-> fillers,
     words_per_minute |-> wpm, primary_alert |-> alert, alert_level |-> level]

AnswerEvaluation(ta, cl, de, co, tip, note) ==
    [technical_accuracy |-> ta, clarity |-> cl, depth |-> de,
     completeness |-> co, improvement_tip |-> tip, positive_note |-> note]

\* AnswerEvaluation.average_score
EvalAverageScore(e) ==
    Rat(e.technical_accuracy + e.clarity + e.depth + e.completeness, 4)

InterviewExchange(q, a, dur, ev, fb, ts) ==
    [question |-> q, answer |-> a, answer_duration_seconds |-> dur,
     evaluation |-> ev, coaching_feedback |-> fb, timestamp |-> ts]

\* the dataclass with its field defaults
InterviewSession(sid, st, resume, jd, t) ==
    [session_id |-> sid, state |-> st, resume_text |-> resume,
     job_description |-> jd, exchanges |-> <<>>, current_question |-> "",
     started_at |-> t, ended_at |-> None, total_questions_asked |-> 0,
     total_filler_words |-> 0, average_wpm |-> <<0, 1>>]

QuestionContext(resume, jd) ==
    [resume_text |-> resume, job_description |-> jd,
     previous_questions |-> <<>>, previous_answers |-> <<>>]

\* a faulty add_exchange: the answer is not recorded
CtxAddExchangeQuestionOnly(ctx, q, a) ==
    [ctx EXCEPT !.previous_questions = Append(@, q)]

\* QuestionContext.add_exchange
CtxAddExchange(ctx, q, a) ==
    [ctx EXCEPT !.previous_questions = Append(@, q),
                !.previous_answers = Append(@, a)]

\* words_per_minute of the exchanges that carry coaching feedback
RECURSIVE WpmValues(_)
WpmValues(exs) ==
    IF exs = <<>> THEN <<>>
    ELSE (IF exs[1].coaching_feedback # None
          THEN <<exs[1].coaching_feedback[1].words_per_minute>> ELSE <<>>)
         \o WpmValues(Tail(exs))

\* a faulty add_exchange: the fillers of the new exchange are counted twice
AddExchangeDoubleFillers(s, ex) ==
    LET exs == Append(s.exchanges, ex)
        wpms == WpmValues(exs)
    IN [s EXCEPT
          !.exchanges = exs,
          !.total_questions_asked = Len(exs),
          !.total_filler_words =
              IF ex.coaching_feedback # None
              THEN @ + 2 * ex.coaching_feedback[1].filler_count ELSE @,
          !.average_wpm =
              IF wpms # <<>> THEN RatDivInt(RatSum(wpms), Len(wpms)) ELSE @]

\* a faulty add_exchange: the counter is not brought back to len(exchanges)
AddExchangeKeepsCount(s, ex) ==
    [s EXCEPT !.exchanges = Append(@, ex)]

\* a faulty add_exchange: exchanges.insert(0, exchange)
AddExchangeInFront(s, ex) ==
    [s EXCEPT !.exchanges = <<ex>> \o @,
              !.total_questions_asked = Len(s.exchanges) + 1]

\* InterviewSession.add_exchange
AddExchange(s, ex) ==
    LET exs == Append(s.exchanges, ex)
        wpms == WpmValues(exs)
    IN [s EXCEPT
          !.exchanges = exs,
          !.total_questions_asked = Len(exs),
          !.total_filler_words =
              IF ex.coaching_feedback # None
              THEN @ + ex.coaching_feedback[1].filler_count ELSE @,
          !.average_wpm =
              IF wpms # <<>> THEN RatDivInt(RatSum(wpms), Len(wpms)) ELSE @]

RECURSIVE ScoreValues(_)
ScoreValues(exs) ==
    IF exs = <<>> THEN <<>>
    ELSE (IF exs[1].evaluation # None
          THEN <<EvalAverageScore(exs[1].evaluation[1])>> ELSE <<>>)
         \o ScoreValues(Tail(exs))

\* InterviewSession.average_score
SessionAverageScore(s) ==
    LET scores == ScoreValues(s.exchanges)
    IN IF scores # <<>> THEN RatDivInt(RatSum(scores), Len(scores)) ELSE <<0, 1>>

\* InterviewSession.to_summary_dict (duration and rounding left out)
ToSummaryDict(s) ==
    [session_id |-> s.session_id,
     total_questions |-> s.total_questions_asked,
     average_score |-> SessionAverageScore(s),
     average_wpm |-> s.average_wpm,
     total_filler_words |-> s.total_filler_words]

(***************************************************************************)
(* src/core/config.py and src/core/prompts.py                               *)
(***************************************************************************)
\* Settings.VOLUME_THRESHOLD = 0.02, as a rational
VOLUME_THRESHOLD == <<1, 50>>
WPM_FAST == 160
WPM_SLOW == 100

COACHING_ALERTS ==
    [volume_low |-> "Speak Up!", pace_fast |-> "Slow Down!",
     pace_slow |-> "Pick Up Pace!", fillers_high |-> "Watch the Fillers!",
     good |-> "Great delivery!"]

(***************************************************************************)
(* src/app/coaching.py                                                      *)
(*                                                                          *)
(* A decoded audio array is kept run-length encoded: a sequence of records  *)
(* [amp, n] standing for n consecutive samples of amplitude amp/1000.       *)
(***************************************************************************)
FILLER_WORDS ==
    <<<<"u", "m">>,
       <<"u", "h">>,
       <<"u", "h", "m">>,
       <<"u", "m", "m">>,
       <<"l", "i", "k", "e">>,
       <<"y", "o", "u", " ", "k", "n", "o", "w">>,
       <<"y", "'", "k", "n", "o", "w">>,
       <<"a", "c", "t", "u", "a", "l", "l", "y">>,
       <<"b", "a", "s", "i", "c", "a", "l", "l", "y">>,
       <<"l", "i", "t", "e", "r", "a", "l", "l", "y">>,
       <<"s", "o">>,
       <<"w", "e", "l", "l">>,
       <<"i", " ", "m", "e", "a", "n">>,
       <<"k", "i", "n", "d", " ", "o", "f">>,
       <<"k", "i", "n", "d", "a">>,
       <<"s", "o", "r", "t", " ", "o", "f">>,
       <<"s", "o", "r", "t", "a">>>>

RECURSIVE ChunkSize(_)
ChunkSize(chunk) ==
    IF chunk = <<>> THEN 0 ELSE chunk[1].n + ChunkSize(Tail(chunk))

RECURSIVE ChunkSumSq(_)
ChunkSumSq(chunk) ==
    IF chunk = <<>> THEN 0
    ELSE chunk[1].n * chunk[1].amp * chunk[1].amp + ChunkSumSq(Tail(chunk))

\* np.mean(audio_float ** 2)
MeanSquare(chunk) ==
    RatDivInt(RatDivInt(Rat(ChunkSumSq(chunk), ChunkSize(chunk)), 1000), 1000)

\* the non-negative rational r with r * r = x, when x has one
\* (np.sqrt; the modelled chunks have rational root mean squares)
RatSqrt(x) ==
    LET rn == CHOOSE k \in 0..x[1] : k * k = x[1]
        rd == CHOOSE k \in 1..x[2] : k * k = x[2]
    IN <<rn, rd>>

\* a faulty analyze_volume: a volume exactly at the threshold raises the alert
AnalyzeVolumeAtThreshold(volume_history, chunk) ==
    IF ChunkSize(chunk) = 0 THEN <<"OK", volume_history>>
    ELSE LET rms == RatSqrt(MeanSquare(chunk))
         IN <<IF ~RatLess(VOLUME_THRESHOLD, rms)
              THEN COACHING_ALERTS.volume_low ELSE "OK",
              Append(volume_history, rms)>>

\* AudioCoach.analyze_volume: <<status, volume history afterwards>>
AnalyzeVolume(volume_history, chunk) ==
    IF ChunkSize(chunk) = 0 THEN <<"OK", volume_history>>
    ELSE LET rms == RatSqrt(MeanSquare(chunk))
         IN <<IF RatLess(rms, VOLUME_THRESHOLD)
              THEN COACHING_ALERTS.volume_low ELSE "OK",
              Append(volume_history, rms)>>

\* (word_count / duration_seconds) * 60
Wpm(text, duration) == Rat(Len(Split(text)) * 60 * duration[2], duration[1])

\* a faulty analyze_pace: a pace exactly at a cutoff raises the alert
AnalyzePaceAtCutoff(wpm_history, text, duration) ==
    IF duration[1] <= 0 \/ ~StripNonEmpty(text) THEN <<"OK", wpm_history>>
    ELSE LET wpm == Wpm(text, duration)
         IN <<IF ~RatLess(wpm, RatOfInt(WPM_FAST)) THEN COACHING_ALERTS.pace_fast
              ELSE IF ~RatLess(RatOfInt(WPM_SLOW), wpm) THEN COACHING_ALERTS.pace_slow
              ELSE "OK",
              Append(wpm_history, wpm)>>

\* AudioCoach.analyze_pace: <<status, wpm history afterwards>>
AnalyzePace(wpm_history, text, duration) ==
    IF duration[1] <= 0 \/ ~StripNonEmpty(text) THEN <<"OK", wpm_history>>
    ELSE LET wpm == Wpm(text, duration)
         IN <<IF RatLess(RatOfInt(WPM_FAST), wpm) THEN COACHING_ALERTS.pace_fast
              ELSE IF RatLess(wpm, RatOfInt(WPM_SLOW)) THEN COACHING_ALERTS.pace_slow
              ELSE "OK",
              Append(wpm_history, wpm)>>

RECURSIVE FillerCountFrom(_, _)
FillerCountFrom(text_lower, i) ==
    IF i > Len(FILLER_WORDS) THEN 0
    ELSE (IF Len(Split(FILLER_WORDS[i])) = 1
          THEN CountEq(Split(text_lower), FILLER_WORDS[i])
          ELSE CountSub(text_lower, FILLER_WORDS[i]))
         + FillerCountFrom(text_lower, i + 1)

\* a faulty get_filler_count: the text is not lower-cased
GetFillerCountCaseSensitive(text) ==
    IF text = <<>> THEN 0 ELSE FillerCountFrom(text, 1)

\* AudioCoach.get_filler_count
GetFillerCount(text) ==
    IF text = <<>> THEN 0 ELSE FillerCountFrom(Lower(text), 1)

\* a faulty get_coaching_feedback: the pace alert goes before the volume alert
GetCoachingFeedbackPaceFirst(coach, text, duration, audio_data) ==
    LET vol == IF audio_data # None
               THEN AnalyzeVolume(coach.volume_history, audio_data[1])
               ELSE <<"OK", coach.volume_history>>
        pace == AnalyzePace(coach.wpm_history, text, duration)
        filler_count == GetFillerCount(text)
        wpm == IF duration[1] > 0 /\ text # <<>> THEN Wpm(text, duration)
               ELSE <<0, 1>>
        primary_alert ==
            IF pace[1] # "OK" THEN pace[1]
            ELSE IF vol[1] # "OK" THEN vol[1]
            ELSE IF filler_count > 5 THEN COACHING_ALERTS.fillers_high
            ELSE COACHING_ALERTS.good
        alert_level ==
            IF pace[1] # "OK" \/ vol[1] # "OK" \/ filler_count > 5 THEN "WARNING"
            ELSE "OK"
    IN [feedback |-> CoachingFeedback(vol[1], pace[1], filler_count,
                                      wpm, primary_alert, alert_level),
        wpm_history |-> pace[2],
        volume_history |-> vol[2]]

\* AudioCoach.get_coaching_feedback; audio_data is None or Some(chunk).
\* Result: [feedback, wpm_history, volume_history]
GetCoachingFeedback(coach, text, duration, audio_data) ==
    LET vol == IF audio_data # None
               THEN AnalyzeVolume(coach.volume_history, audio_data[1])
               ELSE <<"OK", coach.volume_history>>
        pace == AnalyzePace(coach.wpm_history, text, duration)
        volume_status == vol[1]
        pace_status == pace[1]
        filler_count == GetFillerCount(text)
        wpm == IF duration[1] > 0 /\ text # <<>> THEN Wpm(text, duration)
               ELSE <<0, 1>>
        primary_alert ==
            IF volume_status # "OK" THEN volume_status
            ELSE IF pace_status # "OK" THEN pace_status
            ELSE IF filler_count > 5 THEN COACHING_ALERTS.fillers_high
            ELSE IF filler_count > 10 THEN ""
            ELSE COACHING_ALERTS.good
        alert_level ==
            IF volume_status # "OK" THEN "WARNING"
            ELSE IF pace_status # "OK" THEN "WARNING"
            ELSE IF filler_count > 5 THEN "WARNING"
            ELSE IF filler_count > 10 THEN "CRITICAL"
            ELSE "OK"
    IN [feedback |-> CoachingFeedback(volume_status, pace_status, filler_count,
                                      wpm, primary_alert, alert_level),
        wpm_history |-> pace[2],
        volume_history |-> vol[2]]

\* AudioCoach.__init__ / AudioCoach.reset
NewCoach == [wpm_history |-> <<>>, volume_history |-> <<>>]

\* AudioCoach.get_average_wpm
GetAverageWpm(coach) ==
    IF coach.wpm_history = <<>> THEN <<0, 1>>
    ELSE RatDivInt(RatSum(coach.wpm_history), Len(coach.wpm_history))

\* AudioCoach.get_average_volume
GetAverageVolume(coach) ==
    IF coach.volume_history = <<>> THEN <<0, 1>>
    ELSE RatDivInt(RatSum(coach.volume_history), Len(coach.volume_history))

(***************************************************************************)
(* src/infra/llm/gemini.py                                                  *)
(***************************************************************************)
\* the fallback of GeminiInterviewer.evaluate_answer
DefaultEvaluation ==
    AnswerEvaluation(5, 5, 5, 5, "Unable to evaluate - please continue.",
                     "Keep going!")

\* a faulty evaluate_answer: the fallback scores are 0
EvaluateAnswerZeroFallback(resp) ==
    IF resp.kind = "parsed" THEN resp.eval
    ELSE AnswerEvaluation(0, 0, 0, 0, "Unable to evaluate - please continue.",
                          "Keep going!")

\* GeminiInterviewer.evaluate_answer after _configure succeeded: resp is the
\* outcome of _generate followed by _parse_evaluation, either
\* [kind |-> "parsed", eval |-> e] or [kind |-> <an exception name>]
EvaluateAnswer(resp) ==
    IF resp.kind = "parsed" THEN resp.eval ELSE DefaultEvaluation

(***************************************************************************)
(* src/app/orchestrator.py                                                  *)
(*                                                                          *)
(* An orchestrator is [session, question_context, coach]; its session and   *)
(* question context are Optional.  Each coroutine is split at its one       *)
(* await of the Gemini adapter: the ...Begin operator is the code up to     *)
(* the await, the ...Finish operator the code after it.                     *)
(***************************************************************************)
\* InterviewOrchestrator.__init__
NewOrchestrator ==
    [session |-> None, question_context |-> None, coach |-> NewCoach]

\* InterviewOrchestrator.state
OrchState(o) == IF o.session # None THEN o.session[1].state ELSE "IDLE"

\* InterviewOrchestrator._update_state
UpdateState(o, new_state) ==
    IF o.session # None
    THEN [o EXCEPT !.session = Some([o.session[1] EXCEPT !.state = new_state])]
    ELSE o

\* a faulty start_session: the coach is not reset
OrchStartSessionKeepsCoach(o, session_id, resume_text, job_description, t) ==
    UpdateState(
        [session |-> Some(InterviewSession(session_id, "SETUP", resume_text,
                                           job_description, Some(t))),
         question_context |-> Some(QuestionContext(resume_text, job_description)),
         coach |-> o.coach],
        "INTRO")

\* InterviewOrchestrator.start_session
OrchStartSession(o, session_id, resume_text, job_description, t) ==
    UpdateState(
        [session |-> Some(InterviewSession(session_id, "SETUP", resume_text,
                                           job_description, Some(t))),
         question_context |-> Some(QuestionContext(resume_text, job_description)),
         coach |-> NewCoach],
        "INTRO")

\* the guard of get_next_question
GnqHasSession(o) == o.session # None /\ o.question_context # None

\* get_next_question up to the adapter call
GnqBegin(o) == UpdateState(o, "QUESTIONING")

\* which adapter operation get_next_question calls
GnqOperation(o) ==
    IF o.question_context[1].previous_questions = <<>>
    THEN "generate_opening_question" ELSE "generate_question"

\* a faulty get_next_question: the except branch does not mark the session
GnqFinishSwallowsFailure(o, gen) ==
    IF gen.kind = "text"
    THEN UpdateState(
            [o EXCEPT !.session =
                IF o.session = None THEN None
                ELSE Some([o.session[1] EXCEPT
                             !.current_question = gen.text,
                             !.total_questions_asked = @ + 1])],
            "LISTENING")
    ELSE o

\* get_next_question after the adapter call; gen is [kind |-> "text",
\* text |-> q] or [kind |-> <an exception name>]
GnqFinish(o, gen) ==
    IF gen.kind = "text"
    THEN UpdateState(
            [o EXCEPT !.session =
                IF o.session = None THEN None
                ELSE Some([o.session[1] EXCEPT
                             !.current_question = gen.text,
                             !.total_questions_asked = @ + 1])],
            "LISTENING")
    ELSE UpdateState(o, "ERROR")

\* len(audio_np) / sample_rate if audio_np.size > 0 else 0
AudioDuration(chunk, sample_rate) ==
    IF ChunkSize(chunk) > 0 THEN Rat(ChunkSize(chunk), sample_rate) ELSE <<0, 1>>

\* process_answer from _update_state(EVALUATING) through the coaching
\* analysis, for audio whose transcription succeeded with text transcript
PaCoach(o, transcript, chunk, sample_rate) ==
    GetCoachingFeedback(o.coach, transcript,
                        AudioDuration(chunk, sample_rate), Some(chunk))

PaBegin(o, transcript, chunk, sample_rate) ==
    LET c == PaCoach(o, transcript, chunk, sample_rate)
    IN [UpdateState(o, "EVALUATING") EXCEPT
          !.coach = [wpm_history |-> c.wpm_history,
                     volume_history |-> c.volume_history]]

\* steps 5 and 6 of process_answer
RecordExchange(o, answer, duration, evaluation, coaching, t) ==
    LET q == o.session[1].current_question
        ex == InterviewExchange(q, answer, duration, Some(evaluation),
                                Some(coaching), t)
    IN [o EXCEPT
          !.session = Some(AddExchange(o.session[1], ex)),
          !.question_context =
              IF o.question_context # None
              THEN Some(CtxAddExchange(o.question_context[1], q, answer))
              ELSE None]

\* a faulty end_session: ended_at is not stamped
OrchEndSessionNoStamp(o, t) == UpdateState(o, "COMPLETE")

\* InterviewOrchestrator.end_session
OrchEndSession(o, t) ==
    UpdateState([o EXCEPT !.session = Some([o.session[1] EXCEPT !.ended_at = Some(t)])],
                "COMPLETE")

\* InterviewOrchestrator.get_session_stats (duration and rounding left out)
GetSessionStats(o) ==
    [questions_asked |-> o.session[1].total_questions_asked,
     average_score |-> SessionAverageScore(o.session[1]),
     average_wpm |-> GetAverageWpm(o.coach),
     total_fillers |-> o.session[1].total_filler_words]

(***************************************************************************)
(* src/infra/persistence/repository.py                                      *)
(*                                                                          *)
(* A JSON document is a record; a JSON null is <<>> and any other value v   *)
(* of a nullable key is <<v>>.  An ISO-8601 string is [iso |-> t].  The     *)
(* data directory is a function from file stems to [doc, mtime].            *)
(***************************************************************************)
\* str.isalnum() or c in "-_" on the characters of the modelled ids
IsSafeChar(c) ==
    c \in {"a", "b", "c", "d", "e", "f", "z",
           "0", "1", "2", "3", "4", "5", "6", "7", "8", "9", "-", "_"}

\* a path built from the session id as it was given
SessionPathUnfiltered(session_id) == session_id

\* SessionRepository._session_path: the stem of the file inside data_dir
SessionPath(session_id) == SelectSeq(session_id, IsSafeChar)

\* datetime.isoformat / datetime.fromisoformat
IsoFormat(t) == [iso |-> t]
FromIsoFormat(str) == str.iso

EvaluationToDict(e) ==
    [technical_accuracy |-> e.technical_accuracy, clarity |-> e.clarity,
     depth |-> e.depth, completeness |-> e.completeness,
     improvement_tip |-> e.improvement_tip, positive_note |-> e.positive_note]

CoachingToDict(c) ==
    [volume_status |-> c.volume_status, pace_status |-> c.pace_status,
     filler_count |-> c.filler_count, words_per_minute |-> c.words_per_minute,
     primary_alert |-> c.primary_alert,
     alert_level |-> CoachingAlertLevel[c.alert_level]]

ExchangeToDict(ex) ==
    [question |-> ex.question, answer |-> ex.answer,
     duration_seconds |-> ex.answer_duration_seconds,
     timestamp |-> IsoFormat(ex.timestamp),
     evaluation |-> IF ex.evaluation # None
                    THEN Some(EvaluationToDict(ex.evaluation[1])) ELSE None,
     coaching |-> IF ex.coaching_feedback # None
                  THEN Some(CoachingToDict(ex.coaching_feedback[1])) ELSE None]

\* SessionRepository._session_to_dict
SessionToDict(s) ==
    [version |-> 1,
     session_id |-> s.session_id,
     state |-> InterviewState[s.state],
     resume_text |-> s.resume_text,
     job_description |-> s.job_description,
     current_question |-> s.current_question,
     started_at |-> IF s.started_at # None
                    THEN Some(IsoFormat(s.started_at[1])) ELSE None,
     ended_at |-> IF s.ended_at # None
                  THEN Some(IsoFormat(s.ended_at[1])) ELSE None,
     total_questions_asked |-> s.total_questions_asked,
     total_filler_words |-> s.total_filler_words,
     average_wpm |-> s.average_wpm,
     exchanges |-> [i \in 1..Len(s.exchanges) |-> ExchangeToDict(s.exchanges[i])]]

DictToEvaluation(data) ==
    IF data = None THEN None
    ELSE Some(AnswerEvaluation(data[1].technical_accuracy, data[1].clarity,
                               data[1].depth, data[1].completeness,
                               data[1].improvement_tip, data[1].positive_note))

DictToCoaching(data) ==
    IF data = None THEN None
    ELSE Some(CoachingFeedback(data[1].volume_status, data[1].pace_status,
                               data[1].filler_count, data[1].words_per_minute,
                               data[1].primary_alert,
                               CoachingAlertLevelOf(data[1].alert_level)))

\* a faulty _dict_to_session: the duration is read under the key of the model
\* field, which the document does not have, so the default applies
DictToExchangeWrongKey(d) ==
    InterviewExchange(d.question, d.answer, <<0, 1>>,
                      DictToEvaluation(d.evaluation), DictToCoaching(d.coaching),
                      FromIsoFormat(d.timestamp))

DictToExchange(d) ==
    InterviewExchange(d.question, d.answer, d.duration_seconds,
                      DictToEvaluation(d.evaluation), DictToCoaching(d.coaching),
                      FromIsoFormat(d.timestamp))

\* a faulty _dict_to_session: resume_text and job_description change places
DictToSessionSwapsTexts(data) ==
    [session_id |-> data.session_id,
     state |-> InterviewStateOf(data.state),
     resume_text |-> data.job_description,
     job_description |-> data.resume_text,
     exchanges |-> [i \in 1..Len(data.exchanges) |-> DictToExchange(data.exchanges[i])],
     current_question |-> data.current_question,
     started_at |-> IF data.started_at # None
                    THEN Some(FromIsoFormat(data.started_at[1])) ELSE None,
     ended_at |-> IF data.ended_at # None
                  THEN Some(FromIsoFormat(data.ended_at[1])) ELSE None,
     total_questions_asked |-> data.total_questions_asked,
     total_filler_words |-> data.total_filler_words,
     average_wpm |-> data.average_wpm]

\* SessionRepository._dict_to_session
DictToSession(data) ==
    [session_id |-> data.session_id,
     state |-> InterviewStateOf(data.state),
     resume_text |-> data.resume_text,
     job_description |-> data.job_description,
     exchanges |-> [i \in 1..Len(data.exchanges) |-> DictToExchange(data.exchanges[i])],
     current_question |-> data.current_question,
     started_at |-> IF data.started_at # None
                    THEN Some(FromIsoFormat(data.started_at[1])) ELSE None,
     ended_at |-> IF data.ended_at # None
                  THEN Some(FromIsoFormat(data.ended_at[1])) ELSE None,
     total_questions_asked |-> data.total_questions_asked,
     total_filler_words |-> data.total_filler_words,
     average_wpm |-> data.average_wpm]

\* SessionRepository.save when the write and the rename succeed
RepoSave(dir, session, t) ==
    LET path == SessionPath(session.session_id)
        entry == [doc |-> SessionToDict(session), mtime |-> t]
    IN [p \in DOMAIN dir \cup {path} |-> IF p = path THEN entry ELSE dir[p]]

\* SessionRepository.load
RepoLoad(dir, session_id) ==
    IF SessionPath(session_id) \notin DOMAIN dir THEN None
    ELSE Some(DictToSession(dir[SessionPath(session_id)].doc))

\* SessionRepository.cleanup_old_sessions
CleanupOldSessions(dir, max_age_hours, t) ==
    [p \in {q \in DOMAIN dir : ~(dir[q].mtime < t - max_age_hours)} |-> dir[p]]

(***************************************************************************)
(* State                                                                    *)
(***************************************************************************)
VARIABLES
    mode,            \* what main.py launched: "api" (uvicorn) or "direct"
    api_key,         \* whether Settings.GEMINI_API_KEY is set
    now,             \* datetime.now(), in hours
    orchs,           \* the InterviewOrchestrator objects, by object identity
    sessions,        \* routes.sessions: session id -> orchestrator object
    session_created, \* routes.session_created: session id -> datetime
    files,           \* the files of SessionRepository._data_dir
    inflight,        \* coroutines suspended in their Gemini call
    next_uuid,       \* how many uuid4() values were drawn
    ended,           \* ids of the sessions end_session has completed for
    calls,           \* calls made or requests received so far
    last             \* what the step just taken returned or raised, if it did

vars == <<mode, api_key, now, orchs, sessions, session_created, files,
          inflight, next_uuid, ended, calls, last>>

(***************************************************************************)
(* Inputs of the environment                                                *)
(***************************************************************************)
\* str(uuid.uuid4())[:8]: the values the process draws, in order
UuidPool == << <<"a", "1">> >>
UuidPrefix(n) == UuidPool[n]

\* an id no session was started with
UnknownId == <<"z", "z">>

\* the session ids that requests carry
ClientIds == {UuidPool[n] : n \in 1..Len(UuidPool)} \cup {UnknownId}

Resumes == {"resume"}
JobDescriptions == {"jd"}
Questions == {"Q1", "Q2"}

TextUmSo == <<"U", "m", " ", "s", "o">>
TextOk == <<"o", "k">>

\* SubmitAnswerRequest: answer_text (min_length 1), duration_seconds (ge 0)
AnswerInputs == {[text |-> TextOk, duration |-> <<1, 1>>]}

SampleRate == 16000
MinAudioBytes == 1000

\* an uploaded audio file: its size, what Whisper transcribes from it (None
\* when transcription fails) and the array audio_bytes_to_numpy decodes
AudioInputs ==
    {[bytes |-> 2000, speech |-> Some(TextUmSo), chunk |-> <<[amp |-> 50, n |-> 16000]>>],
     [bytes |-> 2000, speech |-> None, chunk |-> <<>>],
     [bytes |-> 500, speech |-> Some(TextOk), chunk |-> <<>>]}

ParsedEvaluation == AnswerEvaluation(8, 7, 6, 7, "tip", "note")

\* outcomes of GeminiInterviewer._generate for a question prompt
GenOutcomes ==
    {[kind |-> "text", text |-> q] : q \in Questions}
    \cup {[kind |-> k, text |-> ""] : k \in {"LLMConnectionError", "LLMResponseError"}}

\* outcomes of _generate followed by _parse_evaluation
EvalOutcomes ==
    {[kind |-> "parsed", eval |-> ParsedEvaluation],
     [kind |-> "LLMResponseError", eval |-> DefaultEvaluation]}

SESSION_TIMEOUT_HOURS == 2
DISK_MAX_AGE_HOURS == 24
\* the instants at which the clock is read
Instants == {0, 3, 25}

\* what a call returned or raised; state is the orchestrator's state property
\* read right after the call ("none" when the call had no orchestrator)
NoResult ==
    [op |-> "none", key |-> <<>>, status |-> "none", error |-> "", state |-> "none"]
Result(op, key, status, error, state) ==
    [op |-> op, key |-> key, status |-> status, error |-> error, state |-> state]

Init ==
    /\ mode \in {"api", "direct"}
    /\ api_key \in BOOLEAN
    /\ now = 0
    /\ orchs = IF mode = "direct" THEN (0 :> NewOrchestrator) ELSE <<>>
    /\ sessions = <<>>
    /\ session_created = <<>>
    /\ files = <<>>
    /\ inflight = <<>>
    /\ next_uuid = 0
    /\ ended = {}
    /\ calls = 0
    /\ last = NoResult

(***************************************************************************)
(* Direct use of one orchestrator (main.py run_cli_demo, ui/dashboard.py):  *)
(* every call runs to completion before the next one starts.                *)
(***************************************************************************)
Put(f, k, v) == [x \in DOMAIN f \cup {k} |-> IF x = k THEN v ELSE f[x]]
Drop(f, ks) == [x \in DOMAIN f \ ks |-> f[x]]

DirectStartSession(resume, jd) ==
    /\ mode = "direct"
    /\ calls < MaxCalls
    /\ calls' = calls + 1
    /\ next_uuid < Len(UuidPool)
    /\ next_uuid' = next_uuid + 1
    /\ orchs' = [orchs EXCEPT ![0] =
                    OrchStartSession(@, UuidPrefix(next_uuid + 1), resume, jd, now)]
    /\ last' = Result("start_session", UuidPrefix(next_uuid + 1), "ok", "",
                       OrchState(orchs'[0]))
    /\ UNCHANGED <<mode, api_key, now, sessions, session_created, files,
                   inflight, ended>>

\* what _generate yields for a question prompt, _configure included
GenFor(gen) ==
    IF api_key THEN gen ELSE [kind |-> "MissingAPIKeyError", text |-> ""]

DirectGetNextQuestion(gen) ==
    /\ mode = "direct"
    /\ calls < MaxCalls
    /\ calls' = calls + 1
    /\ IF ~GnqHasSession(orchs[0])
       THEN /\ last' = Result("get_next_question", <<>>, "raised", "SessionError",
                               OrchState(orchs[0]))
            /\ UNCHANGED orchs
       ELSE /\ orchs' = [orchs EXCEPT ![0] = GnqFinish(GnqBegin(@), GenFor(gen))]
            /\ last' = Result("get_next_question", orchs[0].session[1].session_id,
                              IF GenFor(gen).kind = "text" THEN "ok" ELSE "raised",
                              IF GenFor(gen).kind = "text" THEN "" ELSE GenFor(gen).kind,
                              OrchState(orchs'[0]))
    /\ UNCHANGED <<mode, api_key, now, sessions, session_created, files,
                   inflight, next_uuid, ended>>

\* process_answer(audio_bytes, sample_rate) as one call
DirectProcessAnswer(audio, resp) ==
    /\ mode = "direct"
    /\ calls < MaxCalls
    /\ calls' = calls + 1
    /\ IF orchs[0].session = None
       THEN /\ last' = Result("process_answer", <<>>, "raised", "SessionError",
                               OrchState(orchs[0]))
            /\ UNCHANGED orchs
       ELSE LET o == orchs[0]
                sid == o.session[1].session_id
            IN IF audio.speech = None
                  THEN /\ orchs' = [orchs EXCEPT ![0] =
                                       UpdateState(UpdateState(o, "EVALUATING"), "ERROR")]
                       /\ last' = Result("process_answer", sid, "raised",
                                         "TranscriptionError", OrchState(orchs'[0]))
                  ELSE LET transcript == audio.speech[1]
                           c == PaCoach(o, transcript, audio.chunk, SampleRate)
                           o1 == PaBegin(o, transcript, audio.chunk, SampleRate)
                       IN IF ~api_key
                          THEN /\ orchs' = [orchs EXCEPT ![0] = UpdateState(o1, "ERROR")]
                               /\ last' = Result("process_answer", sid, "raised",
                                                 "MissingAPIKeyError",
                                                 OrchState(orchs'[0]))
                          ELSE /\ orchs' = [orchs EXCEPT ![0] =
                                    RecordExchange(o1, transcript,
                                        AudioDuration(audio.chunk, SampleRate),
                                        EvaluateAnswer(resp), c.feedback, now)]
                               /\ last' = Result("process_answer", sid, "ok", "",
                                                 OrchState(orchs'[0]))
    /\ UNCHANGED <<mode, api_key, now, sessions, session_created, files,
                   inflight, next_uuid, ended>>

DirectEndSession ==
    /\ mode = "direct"
    /\ calls < MaxCalls
    /\ calls' = calls + 1
    /\ IF orchs[0].session = None
       THEN /\ last' = Result("end_session", <<>>, "raised", "SessionError",
                               OrchState(orchs[0]))
            /\ UNCHANGED <<orchs, ended>>
       ELSE /\ orchs' = [orchs EXCEPT ![0] = OrchEndSession(@, now)]
            /\ ended' = ended \cup {orchs[0].session[1].session_id}
            /\ last' = Result("end_session", orchs[0].session[1].session_id, "ok", "",
                              OrchState(orchs'[0]))
    /\ UNCHANGED <<mode, api_key, now, sessions, session_created, files,
                   inflight, next_uuid>>

Tick(t) ==
    /\ t > now
    /\ UNCHANGED calls
    /\ now' = t
    /\ last' = NoResult
    /\ UNCHANGED <<mode, api_key, orchs, sessions, session_created, files,
                   inflight, next_uuid, ended>>

(***************************************************************************)
(* src/api/routes.py                                                        *)
(***************************************************************************)
\* identity of the next object constructed
FreshObject == CHOOSE i \in 1..(Cardinality(DOMAIN orchs) + 1) : i \notin DOMAIN orchs

\* objects that nothing refers to any more are dropped
Collect(os, sess, infl) ==
    [i \in {j \in DOMAIN os :
               \/ j = 0
               \/ \E k \in DOMAIN sess : sess[k] = j
               \/ \E n \in 1..Len(infl) : infl[n].o = j} |-> os[i]]

\* the replay loop of get_orchestrator
RECURSIVE ReplayExchanges(_, _)
ReplayExchanges(ctx, exs) ==
    IF exs = <<>> THEN ctx
    ELSE ReplayExchanges(CtxAddExchange(ctx, exs[1].question, exs[1].answer), Tail(exs))

\* the orchestrator get_orchestrator builds around a persisted session
RestoredOrchestrator(persisted) ==
    [session |-> Some(persisted),
     question_context |->
         Some(ReplayExchanges(QuestionContext(persisted.resume_text,
                                              persisted.job_description),
                              persisted.exchanges)),
     coach |-> NewCoach]

\* a faulty get_orchestrator: an id found nowhere gets a new orchestrator
GetOrCreateOrchestrator(session_id) ==
    IF session_id \in DOMAIN sessions
    THEN [found |-> TRUE, o |-> sessions[session_id], orchs |-> orchs,
          sessions |-> sessions, created |-> session_created]
    ELSE LET persisted == RepoLoad(files, session_id)
             o == IF persisted # None THEN RestoredOrchestrator(persisted[1])
                  ELSE NewOrchestrator
         IN [found |-> TRUE, o |-> FreshObject,
             orchs |-> Put(orchs, FreshObject, o),
             sessions |-> Put(sessions, session_id, FreshObject),
             created |-> Put(session_created, session_id, now)]

\* a faulty get_orchestrator: every id is served by one orchestrator
GetSharedOrchestrator(session_id) ==
    [found |-> session_id \in DOMAIN sessions,
     o |-> IF sessions = <<>> THEN 0
           ELSE CHOOSE x \in DOMAIN orchs : \A y \in DOMAIN orchs : x <= y,
     orchs |-> orchs, sessions |-> sessions, created |-> session_created]

\* routes.get_orchestrator: found is FALSE for the HTTP 404, otherwise o is
\* the object returned and orchs/sessions/created the state it leaves
GetOrchestrator(session_id) ==
    IF session_id \in DOMAIN sessions
    THEN [found |-> TRUE, o |-> sessions[session_id], orchs |-> orchs,
          sessions |-> sessions, created |-> session_created]
    ELSE LET persisted == RepoLoad(files, session_id)
         IN IF persisted # None
            THEN [found |-> TRUE, o |-> FreshObject,
                  orchs |-> Put(orchs, FreshObject, RestoredOrchestrator(persisted[1])),
                  sessions |-> Put(sessions, session_id, FreshObject),
                  created |-> Put(session_created, session_id, now)]
            ELSE [found |-> FALSE, o |-> 0, orchs |-> orchs,
                  sessions |-> sessions, created |-> session_created]

\* a faulty cleanup_stale_sessions: a session exactly as old as the timeout
\* is swept too
CleanupStaleSessionsAtCutoff(sess, created, t) ==
    LET stale == {sid \in DOMAIN created : created[sid] <= t - SESSION_TIMEOUT_HOURS}
    IN [sessions |-> Drop(sess, stale), created |-> Drop(created, stale)]

\* routes.cleanup_stale_sessions: the two maps afterwards
CleanupStaleSessions(sess, created, t) ==
    LET stale == {sid \in DOMAIN created : created[sid] < t - SESSION_TIMEOUT_HOURS}
    IN [sessions |-> Drop(sess, stale), created |-> Drop(created, stale)]

NotFound(op, key) ==
    /\ last' = Result(op, key, "404", "Session not found", "none")
    /\ UNCHANGED <<orchs, sessions, session_created, files, inflight, ended>>

Request(op, key, o, question, text, duration, coaching) ==
    [op |-> op, key |-> key, o |-> o, question |-> question, text |-> text,
     duration |-> duration, coaching |-> coaching]

NoCoaching == CoachingFeedback("OK", "OK", 0, <<0, 1>>, "", "OK")

RemoveAt(seq, n) == SubSeq(seq, 1, n - 1) \o SubSeq(seq, n + 1, Len(seq))

\* POST /session/start
ApiStartSession(resume, jd, save_ok) ==
    /\ mode = "api"
    /\ calls < MaxCalls
    /\ calls' = calls + 1
    /\ next_uuid < Len(UuidPool)
    /\ LET cl == CleanupStaleSessions(sessions, session_created, now)
           sid == UuidPrefix(next_uuid + 1)
           obj == FreshObject
           o == OrchStartSession(NewOrchestrator, sid, resume, jd, now)
       IN /\ sessions' = Put(cl.sessions, sid, obj)
          /\ session_created' = Put(cl.created, sid, now)
          /\ orchs' = Collect(Put(orchs, obj, o), sessions', inflight)
          /\ files' = IF save_ok THEN RepoSave(files, o.session[1], now) ELSE files
          /\ last' = IF save_ok
                     THEN Result("start_session", sid, "200", "", OrchState(o))
                     ELSE Result("start_session", sid, "500", "OSError", OrchState(o))
    /\ next_uuid' = next_uuid + 1
    /\ UNCHANGED <<mode, api_key, now, inflight, ended>>

\* GET /question/next up to the await inside orchestrator.get_next_question
ApiNextQuestionBegin(key) ==
    /\ mode = "api"
    /\ calls < MaxCalls
    /\ calls' = calls + 1
    /\ LET g == GetOrchestrator(key)
       IN IF ~g.found THEN NotFound("get_next_question", key)
          ELSE LET o == g.orchs[g.o]
               IN /\ sessions' = g.sessions
                  /\ session_created' = g.created
                  /\ IF ~api_key
                     THEN /\ orchs' = Put(g.orchs, g.o,
                                  GnqFinish(GnqBegin(o), GenFor([kind |-> "text", text |-> ""])))
                          /\ last' = Result("get_next_question", key, "500",
                                            "MissingAPIKeyError", OrchState(orchs'[g.o]))
                          /\ UNCHANGED inflight
                     ELSE /\ Len(inflight) < MaxInflight
                          /\ orchs' = Put(g.orchs, g.o, GnqBegin(o))
                          /\ inflight' = Append(inflight,
                                 Request("gnq", key, g.o, "", <<>>, <<0, 1>>, NoCoaching))
                          /\ last' = NoResult
                  /\ UNCHANGED <<files, ended>>
    /\ UNCHANGED <<mode, api_key, now, next_uuid>>

\* GET /question/next from the return of the adapter call to the response
ApiNextQuestionFinish(n, gen) ==
    /\ UNCHANGED calls
    /\ n \in 1..Len(inflight)
    /\ inflight[n].op = "gnq"
    /\ LET r == inflight[n]
           o == GnqFinish(orchs[r.o], gen)
       IN /\ inflight' = RemoveAt(inflight, n)
          /\ orchs' = Collect(Put(orchs, r.o, o), sessions, inflight')
          /\ last' = Result("get_next_question", r.key,
                            IF gen.kind = "text" THEN "200" ELSE "500",
                            IF gen.kind = "text" THEN "" ELSE gen.kind, OrchState(o))
    /\ UNCHANGED <<mode, api_key, now, sessions, session_created, files,
                   next_uuid, ended>>

\* POST /answer/submit up to the await of evaluate_answer's _generate
ApiSubmitAnswerBegin(key, inp) ==
    /\ mode = "api"
    /\ calls < MaxCalls
    /\ calls' = calls + 1
    /\ LET g == GetOrchestrator(key)
       IN IF ~g.found THEN NotFound("submit_answer", key)
          ELSE LET o == g.orchs[g.o]
                   coaching == GetCoachingFeedback(NewCoach, inp.text,
                                                   inp.duration, None).feedback
               IN /\ sessions' = g.sessions
                  /\ session_created' = g.created
                  /\ orchs' = g.orchs
                  /\ IF ~api_key
                     THEN /\ last' = Result("submit_answer", key, "500",
                                            "MissingAPIKeyError", OrchState(o))
                          /\ UNCHANGED inflight
                     ELSE /\ Len(inflight) < MaxInflight
                          /\ inflight' = Append(inflight,
                                 Request("submit", key, g.o, o.session[1].current_question,
                                         inp.text, inp.duration, coaching))
                          /\ last' = NoResult
                  /\ UNCHANGED <<files, ended>>
    /\ UNCHANGED <<mode, api_key, now, next_uuid>>

\* POST /answer/submit from the return of evaluate_answer to the response
ApiSubmitAnswerFinish(n, resp, save_ok) ==
    /\ UNCHANGED calls
    /\ n \in 1..Len(inflight)
    /\ inflight[n].op = "submit"
    /\ LET r == inflight[n]
           o == RecordExchange(orchs[r.o], r.text, r.duration, EvaluateAnswer(resp),
                               r.coaching, now)
       IN /\ inflight' = RemoveAt(inflight, n)
          /\ orchs' = Collect(Put(orchs, r.o, o), sessions, inflight')
          /\ files' = IF save_ok THEN RepoSave(files, o.session[1], now) ELSE files
          /\ last' = IF save_ok
                     THEN Result("submit_answer", r.key, "200", "", OrchState(o))
                     ELSE Result("submit_answer", r.key, "500", "OSError", OrchState(o))
    /\ UNCHANGED <<mode, api_key, now, sessions, session_created, next_uuid, ended>>

\* POST /answer/audio up to the await inside orchestrator.process_answer
ApiAudioAnswerBegin(key, audio) ==
    /\ mode = "api"
    /\ calls < MaxCalls
    /\ calls' = calls + 1
    /\ LET g == GetOrchestrator(key)
       IN IF ~g.found THEN NotFound("submit_audio_answer", key)
          ELSE LET o == g.orchs[g.o]
               IN /\ sessions' = g.sessions
                  /\ session_created' = g.created
                  /\ UNCHANGED <<files, ended>>
                  /\ IF audio.bytes < MinAudioBytes
                     THEN /\ orchs' = g.orchs
                          /\ last' = Result("submit_audio_answer", key, "400",
                                            "Audio file too small or empty", OrchState(o))
                          /\ UNCHANGED inflight
                     ELSE IF audio.speech = None
                     THEN /\ orchs' = Put(g.orchs, g.o,
                                  UpdateState(UpdateState(o, "EVALUATING"), "ERROR"))
                          /\ last' = Result("submit_audio_answer", key, "500",
                                            "TranscriptionError", OrchState(orchs'[g.o]))
                          /\ UNCHANGED inflight
                     ELSE LET transcript == audio.speech[1]
                              c == PaCoach(o, transcript, audio.chunk, SampleRate)
                              o1 == PaBegin(o, transcript, audio.chunk, SampleRate)
                          IN IF ~api_key
                             THEN /\ orchs' = Put(g.orchs, g.o, UpdateState(o1, "ERROR"))
                                  /\ last' = Result("submit_audio_answer", key, "500",
                                                    "MissingAPIKeyError",
                                                    OrchState(orchs'[g.o]))
                                  /\ UNCHANGED inflight
                             ELSE /\ Len(inflight) < MaxInflight
                                  /\ orchs' = Put(g.orchs, g.o, o1)
                                  /\ inflight' = Append(inflight,
                                         Request("audio", key, g.o,
                                                 o.session[1].current_question, transcript,
                                                 AudioDuration(audio.chunk, SampleRate),
                                                 c.feedback))
                                  /\ last' = NoResult
    /\ UNCHANGED <<mode, api_key, now, next_uuid>>

\* POST /answer/audio from the return of evaluate_answer to the response
ApiAudioAnswerFinish(n, resp, save_ok) ==
    /\ UNCHANGED calls
    /\ n \in 1..Len(inflight)
    /\ inflight[n].op = "audio"
    /\ LET r == inflight[n]
           o == RecordExchange(orchs[r.o], r.text, r.duration, EvaluateAnswer(resp),
                               r.coaching, now)
       IN /\ inflight' = RemoveAt(inflight, n)
          /\ orchs' = Collect(Put(orchs, r.o, o), sessions, inflight')
          /\ files' = IF save_ok THEN RepoSave(files, o.session[1], now) ELSE files
          /\ last' = IF save_ok
                     THEN Result("submit_audio_answer", r.key, "200", "", OrchState(o))
                     ELSE Result("submit_audio_answer", r.key, "500", "OSError",
                                 OrchState(o))
    /\ UNCHANGED <<mode, api_key, now, sessions, session_created, next_uuid, ended>>

\* POST /session/end
ApiEndSession(key) ==
    /\ mode = "api"
    /\ calls < MaxCalls
    /\ calls' = calls + 1
    /\ LET g == GetOrchestrator(key)
       IN IF ~g.found THEN NotFound("end_session", key)
          ELSE LET o == OrchEndSession(g.orchs[g.o], now)
               IN /\ sessions' = Drop(g.sessions, {key})
                  /\ session_created' = g.created
                  /\ orchs' = Collect(Put(g.orchs, g.o, o), sessions', inflight)
                  /\ ended' = ended \cup {o.session[1].session_id}
                  /\ last' = Result("end_session", key, "200", "", OrchState(o))
                  /\ UNCHANGED <<files, inflight>>
    /\ UNCHANGED <<mode, api_key, now, next_uuid>>

\* GET /session/stats
ApiGetSessionStats(key) ==
    /\ mode = "api"
    /\ calls < MaxCalls
    /\ calls' = calls + 1
    /\ LET g == GetOrchestrator(key)
       IN IF ~g.found THEN NotFound("get_session_stats", key)
          ELSE /\ sessions' = g.sessions
               /\ session_created' = g.created
               /\ orchs' = g.orchs
               /\ last' = Result("get_session_stats", key, "200", "",
                                 OrchState(g.orchs[g.o]))
               /\ UNCHANGED <<files, inflight, ended>>
    /\ UNCHANGED <<mode, api_key, now, next_uuid>>

\* one round of app.background_cleanup_task after its sleep
BackgroundCleanup ==
    /\ mode = "api"
    /\ UNCHANGED calls
    /\ LET cl == CleanupStaleSessions(sessions, session_created, now)
       IN /\ sessions' = cl.sessions
          /\ session_created' = cl.created
          /\ orchs' = Collect(orchs, sessions', inflight)
    /\ files' = CleanupOldSessions(files, DISK_MAX_AGE_HOURS, now)
    /\ last' = NoResult
    /\ UNCHANGED <<mode, api_key, now, inflight, next_uuid, ended>>

Next ==
    \/ \E r \in Resumes, j \in JobDescriptions : DirectStartSession(r, j)
    \/ \E gen \in GenOutcomes : DirectGetNextQuestion(gen)
    \/ \E a \in AudioInputs, resp \in EvalOutcomes : DirectProcessAnswer(a, resp)
    \/ DirectEndSession
    \/ \E r \in Resumes, j \in JobDescriptions, ok \in BOOLEAN : ApiStartSession(r, j, ok)
    \/ \E k \in ClientIds : ApiNextQuestionBegin(k)
    \/ \E n \in 1..MaxInflight, gen \in GenOutcomes : ApiNextQuestionFinish(n, gen)
    \/ \E k \in ClientIds, inp \in AnswerInputs : ApiSubmitAnswerBegin(k, inp)
    \/ \E n \in 1..MaxInflight, resp \in EvalOutcomes, ok \in BOOLEAN :
          ApiSubmitAnswerFinish(n, resp, ok)
    \/ \E k \in ClientIds, a \in AudioInputs : ApiAudioAnswerBegin(k, a)
    \/ \E n \in 1..MaxInflight, resp \in EvalOutcomes, ok \in BOOLEAN :
          ApiAudioAnswerFinish(n, resp, ok)
    \/ \E k \in ClientIds : ApiEndSession(k)
    \/ \E k \in ClientIds : ApiGetSessionStats(k)
    \/ BackgroundCleanup

\* the program while the clock reads its first instant
Spec == Init /\ [][Next]_vars

\* the program with the clock advancing
NextClock == Next \/ \E t \in Instants : Tick(t)

SpecClock == Init /\ [][NextClock]_vars

(***************************************************************************)
(* The repository used on its own: a caller holds one session, saves it    *)
(* and loads it back (object 0 holds the caller's session, object 1 what    *)
(* load returned).                                                          *)
(***************************************************************************)
\* exchanges per session of the repository's inputs
MaxStoredExchanges == 2

SampleCoaching == GetCoachingFeedback(NewCoach, TextUmSo, <<1, 1>>, None).feedback

\* exchanges with and without an evaluation and coaching feedback
SampleExchanges ==
    {InterviewExchange("Q1", TextUmSo, <<3, 2>>, ev, fb, 1) :
        ev \in {None, Some(ParsedEvaluation)}, fb \in {None, Some(SampleCoaching)}}

SeqsUpTo(S, n) == UNION {[1..k -> S] : k \in 0..n}

RECURSIVE AddExchanges(_, _)
AddExchanges(s, exs) ==
    IF exs = <<>> THEN s ELSE AddExchanges(AddExchange(s, exs[1]), Tail(exs))

\* sessions in every state, open and ended, with up to MaxStoredExchanges exchanges
SampleSessions ==
    {[AddExchanges(InterviewSession(UuidPool[1], st, "resume", "jd", Some(0)), exs)
        EXCEPT !.current_question = IF exs = <<>> THEN "" ELSE "Q2",
               !.ended_at = e] :
        st \in StateNames, exs \in SeqsUpTo(SampleExchanges, MaxStoredExchanges),
        e \in {None, Some(2)}}

InitRoundTrip ==
    /\ mode = "repository"
    /\ api_key = FALSE
    /\ now = 3
    /\ \E s \in SampleSessions :
          orchs = (0 :> [NewOrchestrator EXCEPT !.session = Some(s)])
    /\ sessions = <<>>
    /\ session_created = <<>>
    /\ files = <<>>
    /\ inflight = <<>>
    /\ next_uuid = 0
    /\ ended = {}
    /\ calls = 0
    /\ last = NoResult

\* session_repo.save(session)
RoundTripSave ==
    /\ mode = "repository"
    /\ files' = RepoSave(files, orchs[0].session[1], now)
    /\ last' = Result("save", orchs[0].session[1].session_id, "ok", "", "none")
    /\ UNCHANGED <<mode, api_key, now, orchs, sessions, session_created,
                   inflight, next_uuid, ended, calls>>

\* session_repo.load(session.session_id)
RoundTripLoad ==
    /\ mode = "repository"
    /\ LET loaded == RepoLoad(files, orchs[0].session[1].session_id)
       IN /\ orchs' = Put(orchs, 1, [NewOrchestrator EXCEPT !.session = loaded])
          /\ last' = Result("load", orchs[0].session[1].session_id,
                            IF loaded = None THEN "none" ELSE "ok", "", "none")
    /\ UNCHANGED <<mode, api_key, now, sessions, session_created, files,
                   inflight, next_uuid, ended, calls>>

NextRoundTrip == RoundTripSave \/ RoundTripLoad

SpecRoundTrip == InitRoundTrip /\ [][NextRoundTrip]_vars

(***************************************************************************)
(* One save step by step, with a reader of the data directory beside it.   *)
(* Object 0 holds the session being saved, object 2 the session of the     *)
(* record already stored (none when there is no record), object 1 what the *)
(* reader's load returned.                                                  *)
(***************************************************************************)
\* path.with_suffix('.json.tmp'), as a name in the data directory
TempName(stem) == stem \o <<".json.tmp">>

\* a save that writes the document straight onto the file of the session
SaveWriteInPlace(stem) == stem

\* the file save() opens for writing
SaveWriteTarget(stem) == TempName(stem)

\* a file that was opened for writing and not yet written out and closed
PartialDocument == [partial |-> TRUE]

\* json.load succeeds on a file
IsComplete(doc) == "partial" \notin DOMAIN doc

\* the record stored by an earlier save
StoredBefore ==
    IF orchs[2].session = None THEN <<>>
    ELSE RepoSave(<<>>, orchs[2].session[1], 0)

SaveStem == SessionPath(orchs[0].session[1].session_id)

InitSave ==
    /\ mode = "save"
    /\ api_key = FALSE
    /\ now = 3
    /\ \E s \in SampleSessions,
          old \in {None, Some(InterviewSession(UuidPool[1], "INTRO", "resume", "jd", Some(0)))} :
          /\ orchs = (0 :> [NewOrchestrator EXCEPT !.session = Some(s)])
                     @@ (2 :> [NewOrchestrator EXCEPT !.session = old])
          /\ files = IF old = None THEN <<>> ELSE RepoSave(<<>>, old[1], 0)
    /\ sessions = <<>>
    /\ session_created = <<>>
    /\ inflight = <<>>
    /\ next_uuid = 0
    /\ ended = {}
    /\ calls = 0
    /\ last = NoResult

\* the except branch of save: the temporary file is removed if it exists and
\* the exception is raised again
SaveRaise ==
    /\ files' = Drop(files, {SaveWriteTarget(SaveStem)})
    /\ inflight' = <<>>
    /\ last' = Result("save", orchs[0].session[1].session_id, "raised", "OSError", "none")

\* save up to open(temp_path, 'w')
SaveOpen(ok) ==
    /\ mode = "save"
    /\ calls = 0
    /\ calls' = 1
    /\ IF ok
       THEN /\ files' = Put(files, SaveWriteTarget(SaveStem),
                            [doc |-> PartialDocument, mtime |-> now])
            /\ inflight' = <<[op |-> "save", pc |-> "writing"]>>
            /\ last' = NoResult
       ELSE SaveRaise
    /\ UNCHANGED <<mode, api_key, now, orchs, sessions, session_created,
                   next_uuid, ended>>

\* json.dump and the close of the file
SaveWrite(ok) ==
    /\ mode = "save"
    /\ inflight # <<>>
    /\ inflight[1].pc = "writing"
    /\ IF ok
       THEN /\ files' = Put(files, SaveWriteTarget(SaveStem),
                            [doc |-> SessionToDict(orchs[0].session[1]), mtime |-> now])
            /\ inflight' = <<[op |-> "save", pc |-> "written"]>>
            /\ last' = NoResult
       ELSE SaveRaise
    /\ UNCHANGED <<mode, api_key, now, orchs, sessions, session_created,
                   next_uuid, ended, calls>>

\* temp_path.replace(path)
SaveReplace(ok) ==
    /\ mode = "save"
    /\ inflight # <<>>
    /\ inflight[1].pc = "written"
    /\ IF ok
       THEN /\ files' = Put(Drop(files, {SaveWriteTarget(SaveStem)}), SaveStem,
                            files[SaveWriteTarget(SaveStem)])
            /\ inflight' = <<>>
            /\ last' = Result("save", orchs[0].session[1].session_id, "ok", "", "none")
       ELSE SaveRaise
    /\ UNCHANGED <<mode, api_key, now, orchs, sessions, session_created,
                   next_uuid, ended, calls>>

\* a load of the session id by a reader of the directory, at any moment
SaveLoad ==
    /\ mode = "save"
    /\ LET loaded == IF SaveStem \notin DOMAIN files THEN None
                     ELSE IF ~IsComplete(files[SaveStem].doc) THEN None
                     ELSE RepoLoad(files, orchs[0].session[1].session_id)
       IN /\ orchs' = Put(orchs, 1, [NewOrchestrator EXCEPT !.session = loaded])
          /\ last' = Result("load", orchs[0].session[1].session_id,
                            IF loaded = None THEN "none" ELSE "ok", "", "none")
    /\ UNCHANGED <<mode, api_key, now, sessions, session_created, files,
                   inflight, next_uuid, ended, calls>>

NextSave ==
    \/ \E ok \in BOOLEAN : SaveOpen(ok)
    \/ \E ok \in BOOLEAN : SaveWrite(ok)
    \/ \E ok \in BOOLEAN : SaveReplace(ok)
    \/ SaveLoad

SpecSave == InitSave /\ [][NextSave]_vars

(***************************************************************************)
(* The storage location of a session id.  A path is a record of its        *)
(* components; the keys of files are paths in this specification.          *)
(***************************************************************************)
MaxIdLen == 3

\* Path("data/sessions")
DataDir == [absolute |-> FALSE, parts |-> << <<"d", "a", "t", "a">>,
                                             <<"s", "e", "s", "s", "i", "o", "n", "s">> >>]

\* the components of a path string: split at "/", empty and "." components dropped
RECURSIVE PathParts(_, _, _)
PathParts(text, i, cur) ==
    LET done == IF cur = <<>> \/ cur = <<".">> THEN <<>> ELSE <<cur>>
    IN IF i > Len(text) THEN done
       ELSE IF text[i] = "/" THEN done \o PathParts(text, i + 1, <<>>)
       ELSE PathParts(text, i + 1, Append(cur, text[i]))

\* dir / name
PathJoin(dir, name) ==
    IF name # <<>> /\ name[1] = "/"
    THEN [absolute |-> TRUE, parts |-> PathParts(name, 1, <<>>)]
    ELSE [absolute |-> dir.absolute, parts |-> dir.parts \o PathParts(name, 1, <<>>)]

\* self._data_dir / f"{safe_id}.json"
SessionFile(session_id) ==
    PathJoin(DataDir, SessionPath(session_id) \o <<".", "j", "s", "o", "n">>)

InitPath ==
    /\ mode = "path"
    /\ api_key = FALSE
    /\ now = 3
    /\ \E id \in SeqsUpTo({"a", "1", "-", "_", ".", "/", "\\"}, MaxIdLen) :
          orchs = (0 :> [NewOrchestrator EXCEPT
                           !.session = Some(InterviewSession(id, "INTRO", "resume", "jd", Some(0)))])
    /\ files = <<>>
    /\ sessions = <<>>
    /\ session_created = <<>>
    /\ inflight = <<>>
    /\ next_uuid = 0
    /\ ended = {}
    /\ calls = 0
    /\ last = NoResult

PathSave ==
    /\ mode = "path"
    /\ LET session == orchs[0].session[1]
       IN /\ files' = Put(files, SessionFile(session.session_id),
                          [doc |-> SessionToDict(session), mtime |-> now])
          /\ last' = Result("save", session.session_id, "ok", "", "none")
    /\ UNCHANGED <<mode, api_key, now, orchs, sessions, session_created,
                   inflight, next_uuid, ended, calls>>

PathLoad ==
    /\ mode = "path"
    /\ LET session_id == orchs[0].session[1].session_id
           path == SessionFile(session_id)
           loaded == IF path \in DOMAIN files
                     THEN Some(DictToSession(files[path].doc)) ELSE None
       IN /\ orchs' = Put(orchs, 1, [NewOrchestrator EXCEPT !.session = loaded])
          /\ last' = Result("load", session_id,
                            IF loaded = None THEN "none" ELSE "ok", "", "none")
    /\ UNCHANGED <<mode, api_key, now, sessions, session_created, files,
                   inflight, next_uuid, ended, calls>>

PathDelete ==
    /\ mode = "path"
    /\ LET session_id == orchs[0].session[1].session_id
           path == SessionFile(session_id)
       IN /\ files' = Drop(files, {path})
          /\ last' = Result("delete", session_id,
                            IF path \in DOMAIN files THEN "true" ELSE "false", "", "none")
    /\ UNCHANGED <<mode, api_key, now, orchs, sessions, session_created,
                   inflight, next_uuid, ended, calls>>

NextPath == PathSave \/ PathLoad \/ PathDelete

SpecPath == InitPath /\ [][NextPath]_vars

(***************************************************************************)
(* Two sessions side by side: the state after two POST /session/start, and *)
(* from there the question and answer requests of both, interleaved (the   *)
(* two calls made count against MaxCalls).                                 *)
(***************************************************************************)
\* the id of the second session
SecondId == <<"b", "2">>

TwoIds == {UuidPool[1], SecondId}

InitTwo ==
    LET oA == OrchStartSession(NewOrchestrator, UuidPool[1], "resume", "jd", 0)
        oB == OrchStartSession(NewOrchestrator, SecondId, "resume", "jd", 0)
    IN /\ mode = "api"
       /\ api_key = TRUE
       /\ now = 0
       /\ orchs = (1 :> oA) @@ (2 :> oB)
       /\ sessions = (UuidPool[1] :> 1) @@ (SecondId :> 2)
       /\ session_created = (UuidPool[1] :> 0) @@ (SecondId :> 0)
       /\ files = RepoSave(RepoSave(<<>>, oA.session[1], 0), oB.session[1], 0)
       /\ inflight = <<>>
       /\ next_uuid = Len(UuidPool)
       /\ ended = {}
       /\ calls = 2
       /\ last = NoResult

NextTwo ==
    \/ \E k \in TwoIds : ApiNextQuestionBegin(k)
    \/ \E n \in 1..MaxInflight, gen \in GenOutcomes : ApiNextQuestionFinish(n, gen)
    \/ \E k \in TwoIds, inp \in AnswerInputs : ApiSubmitAnswerBegin(k, inp)
    \/ \E n \in 1..MaxInflight, resp \in EvalOutcomes, ok \in BOOLEAN :
          ApiSubmitAnswerFinish(n, resp, ok)
    \/ \E k \in TwoIds, a \in AudioInputs : ApiAudioAnswerBegin(k, a)
    \/ \E n \in 1..MaxInflight, resp \in EvalOutcomes, ok \in BOOLEAN :
          ApiAudioAnswerFinish(n, resp, ok)

SpecTwo == InitTwo /\ [][NextTwo]_vars

(***************************************************************************)
(* The API with the clock advancing past the two age cutoffs: one session  *)
(* is started, used, swept from memory and from the data directory.        *)
(***************************************************************************)
\* the instants at which the clock is read: on and past the two cutoffs
SweepInstants == {0, 2, 3, 25}

InitSweep ==
    /\ mode = "api"
    /\ api_key = TRUE
    /\ now = 0
    /\ orchs = <<>>
    /\ sessions = <<>>
    /\ session_created = <<>>
    /\ files = <<>>
    /\ inflight = <<>>
    /\ next_uuid = 0
    /\ ended = {}
    /\ calls = 0
    /\ last = NoResult

NextSweep ==
    \/ \E ok \in BOOLEAN : ApiStartSession("resume", "jd", ok)
    \/ \E k \in {UuidPool[1]} : ApiNextQuestionBegin(k)
    \/ \E n \in 1..MaxInflight : ApiNextQuestionFinish(n, [kind |-> "text", text |-> "Q1"])
    \/ \E k \in {UuidPool[1]}, inp \in {[text |-> TextUmSo, duration |-> <<1, 1>>]} :
          ApiSubmitAnswerBegin(k, inp)
    \/ \E n \in 1..MaxInflight, resp \in {r \in EvalOutcomes : r.kind = "parsed"} :
          ApiSubmitAnswerFinish(n, resp, TRUE)
    \/ \E k \in {UuidPool[1]} : ApiEndSession(k)
    \/ \E k \in {UuidPool[1]} : ApiGetSessionStats(k)
    \/ BackgroundCleanup
    \/ \E t \in SweepInstants : Tick(t)

SpecSweep == InitSweep /\ [][NextSweep]_vars

(***************************************************************************)
(* The coach used on its own: object 0 holds an AudioCoach, the one frame  *)
(* in inflight the arguments of its calls and what the last call returned. *)
(***************************************************************************)
\* words and phrases joined into one text of the coach's inputs
MaxWords == 2

\* calls made on one coach
MaxCoachCalls == 2

InitCoach ==
    LET RECURSIVE Join(_)
        Join(ws) == IF ws = <<>> THEN <<>>
                    ELSE IF Len(ws) = 1 THEN ws[1]
                    ELSE ws[1] \o <<" ">> \o Join(Tail(ws))
        um == <<"u", "m">>
        words == {<<"U", "m">>, <<"l", "i", "k", "e">>, <<"l", "i", "k", "e", "l", "y">>,
                  <<"y", "o", "u", " ", "k", "n", "o", "w">>}
        texts == {Join(ws) : ws \in SeqsUpTo(words, MaxWords)}
                 \cup {<<" ">>, Join([i \in 1..6 |-> um]), Join([i \in 1..11 |-> um])}
        durations == {<<-1, 1>>, <<0, 1>>, <<3, 8>>, <<3, 5>>, <<3, 1>>, <<5, 1>>}
        quiet == <<[amp |-> 10, n |-> 4]>>
        \* chunks that are empty, at the threshold, loud, and of mixed samples
        chunks == {<<>>, <<[amp |-> 20, n |-> 4]>>, <<[amp |-> 50, n |-> 4]>>,
                   <<[amp |-> 28, n |-> 1], [amp |-> 4, n |-> 1]>>}
        inputs == {<<t, d, a>> : t \in texts, d \in durations, a \in {None, Some(quiet)}}
                  \cup {<<um, <<3, 8>>, Some(c)>> : c \in chunks}
    IN /\ mode = "coach"
       /\ api_key = FALSE
       /\ now = 0
       /\ orchs = (0 :> NewOrchestrator)
       /\ sessions = <<>>
       /\ session_created = <<>>
       /\ files = <<>>
       /\ \E in \in inputs :
             inflight = <<[op |-> "none", text |-> in[1], duration |-> in[2],
                           audio |-> in[3], returned |-> None]>>
       /\ next_uuid = 0
       /\ ended = {}
       /\ calls = 0
       /\ last = NoResult

CoachAnalyzeVolume ==
    /\ mode = "coach"
    /\ calls < MaxCoachCalls
    /\ calls' = calls + 1
    /\ inflight[1].audio # None
    /\ LET f == inflight[1]
           r == AnalyzeVolume(orchs[0].coach.volume_history, f.audio[1])
       IN /\ orchs' = [orchs EXCEPT ![0].coach.volume_history = r[2]]
          /\ inflight' = <<[f EXCEPT !.op = "analyze_volume", !.returned = Some(r[1])]>>
    /\ UNCHANGED <<mode, api_key, now, sessions, session_created, files,
                   next_uuid, ended, last>>

CoachAnalyzePace ==
    /\ mode = "coach"
    /\ calls < MaxCoachCalls
    /\ calls' = calls + 1
    /\ LET f == inflight[1]
           r == AnalyzePace(orchs[0].coach.wpm_history, f.text, f.duration)
       IN /\ orchs' = [orchs EXCEPT ![0].coach.wpm_history = r[2]]
          /\ inflight' = <<[f EXCEPT !.op = "analyze_pace", !.returned = Some(r[1])]>>
    /\ UNCHANGED <<mode, api_key, now, sessions, session_created, files,
                   next_uuid, ended, last>>

CoachGetFillerCount ==
    /\ mode = "coach"
    /\ calls < MaxCoachCalls
    /\ calls' = calls + 1
    /\ LET f == inflight[1]
       IN inflight' = <<[f EXCEPT !.op = "get_filler_count",
                                  !.returned = Some(GetFillerCount(f.text))]>>
    /\ UNCHANGED <<mode, api_key, now, orchs, sessions, session_created, files,
                   next_uuid, ended, last>>

CoachGetCoachingFeedback ==
    /\ mode = "coach"
    /\ calls < MaxCoachCalls
    /\ calls' = calls + 1
    /\ LET f == inflight[1]
           r == GetCoachingFeedback(orchs[0].coach, f.text, f.duration, f.audio)
       IN /\ orchs' = [orchs EXCEPT ![0].coach =
                          [wpm_history |-> r.wpm_history,
                           volume_history |-> r.volume_history]]
          /\ inflight' = <<[f EXCEPT !.op = "get_coaching_feedback",
                                     !.returned = Some(r.feedback)]>>
    /\ UNCHANGED <<mode, api_key, now, sessions, session_created, files,
                   next_uuid, ended, last>>

NextCoach ==
    \/ CoachAnalyzeVolume
    \/ CoachAnalyzePace
    \/ CoachGetFillerCount
    \/ CoachGetCoachingFeedback

SpecCoach == InitCoach /\ [][NextCoach]_vars

(***************************************************************************)
(* One orchestrator used directly for a second session: the state after    *)
(* start_session and one answered audio of a first session (two calls of   *)
(* MaxCalls), and from there every call of the orchestrator.               *)
(***************************************************************************)
InitRestart ==
    \E resp \in EvalOutcomes :
       LET a == CHOOSE x \in AudioInputs : x.bytes >= MinAudioBytes /\ x.speech # None
           o1 == OrchStartSession(NewOrchestrator, SecondId, "resume", "jd", 0)
           o2 == RecordExchange(PaBegin(o1, a.speech[1], a.chunk, SampleRate),
                                a.speech[1], AudioDuration(a.chunk, SampleRate),
                                EvaluateAnswer(resp),
                                PaCoach(o1, a.speech[1], a.chunk, SampleRate).feedback, 0)
       IN /\ mode = "direct"
          /\ api_key = TRUE
          /\ now = 0
          /\ orchs = (0 :> o2)
          /\ sessions = <<>>
          /\ session_created = <<>>
          /\ files = <<>>
          /\ inflight = <<>>
          /\ next_uuid = 0
          /\ ended = {}
          /\ calls = 2
          /\ last = NoResult

NextRestart ==
    \/ \E r \in Resumes, j \in JobDescriptions : DirectStartSession(r, j)
    \/ \E gen \in GenOutcomes : DirectGetNextQuestion(gen)
    \/ \E a \in AudioInputs, resp \in EvalOutcomes : DirectProcessAnswer(a, resp)
    \/ DirectEndSession

SpecRestart == InitRestart /\ [][NextRestart]_vars

(***************************************************************************)
(* The API with requests that carry the started id or an id that differs   *)
(* from it in a character _session_path removes.                           *)
(***************************************************************************)
AliasId == <<"a", ".", "1">>

NextAlias ==
    \/ \E ok \in BOOLEAN : ApiStartSession("resume", "jd", ok)
    \/ \E k \in {UuidPool[1], AliasId} : ApiNextQuestionBegin(k)
    \/ \E n \in 1..MaxInflight, gen \in GenOutcomes : ApiNextQuestionFinish(n, gen)
    \/ \E k \in {UuidPool[1], AliasId}, inp \in AnswerInputs : ApiSubmitAnswerBegin(k, inp)
    \/ \E n \in 1..MaxInflight, resp \in EvalOutcomes : ApiSubmitAnswerFinish(n, resp, TRUE)
    \/ \E k \in {UuidPool[1], AliasId} : ApiEndSession(k)
    \/ \E k \in {UuidPool[1], AliasId} : ApiGetSessionStats(k)

SpecAlias == InitSweep /\ [][NextAlias]_vars

(***************************************************************************)
(* src/infra/llm/gemini.py attempt by attempt: one orchestrator with a     *)
(* session, each adapter call split at the waits between the attempts of    *)
(* _generate.  What generate_content does is an input: a response whose     *)
(* text is non-empty, blank or empty, a BlockedPromptException, or another  *)
(* exception, of which only the substrings _generate looks for in the       *)
(* lowered message are kept.  A response text is its name and the first     *)
(* {...} group in it: None, "invalid" (not JSON), or the keys it holds.     *)
(***************************************************************************)
MaxAttempts == 3

\* what generate_content does in one attempt.  The {...} group of a text is
\* [valid, scores, tips]: whether json.loads accepts it and the keys it
\* holds, a score being <<n>> when int() gives n and <<>> when int() raises
Signals ==
    LET ScoreKeys == {"technical_accuracy", "clarity", "depth", "completeness"}
        JsonGroup(valid, scores, tips) ==
            [valid |-> valid, scores |-> scores, tips |-> tips]
        full == [k \in ScoreKeys |->
                   CASE k = "technical_accuracy" -> Some(8)
                     [] k = "clarity" -> Some(7)
                     [] k = "depth" -> Some(6)
                     [] OTHER -> Some(7)]
        tips == [k \in {"improvement_tip", "positive_note"} |->
                   IF k = "improvement_tip" THEN "tip" ELSE "note"]
        partial == [k \in {"clarity"} |-> Some(7)]
        worded == [full EXCEPT !["depth"] = None]
        Text(name, json) == [kind |-> "text", text |-> name, json |-> json, has |-> {}]
        Other(kind, has) == [kind |-> kind, text |-> "", json |-> None, has |-> has]
    IN {Text("Q1", None),
        Text("J1", Some(JsonGroup(TRUE, full, tips))),
        Text("J2", Some(JsonGroup(TRUE, partial, <<>>))),
        Text("J3", Some(JsonGroup(TRUE, worded, tips))),
        Text("J4", Some(JsonGroup(FALSE, <<>>, <<>>))),
        Other("blank", {}), Other("empty", {}), Other("BlockedPromptException", {})}
    \cup {Other("Exception", h) :
            h \in {{}, {"429"}, {"rate"}, {"connection"}, {"network"},
                   {"rate", "connection"}}}

\* the body of GeminiInterviewer._generate, one attempt
GenerateOnce(sig) ==
    CASE sig.kind = "text" -> [kind |-> "text", text |-> sig.text]
      [] sig.kind = "blank" -> [kind |-> "text", text |-> ""]
      [] sig.kind = "BlockedPromptException" -> [kind |-> "LLMResponseError", text |-> ""]
      [] sig.kind = "empty" -> [kind |-> "LLMResponseError", text |-> ""]
      [] OTHER ->
           IF "429" \in sig.has \/ "rate" \in sig.has
           THEN [kind |-> "LLMRateLimitError", text |-> ""]
           ELSE IF "connection" \in sig.has \/ "network" \in sig.has
           THEN [kind |-> "LLMConnectionError", text |-> ""]
           ELSE [kind |-> "LLMResponseError", text |-> ""]

\* a retry policy that retries every failure
ShouldRetryAnyFailure(kind, attempts) == kind # "text" /\ attempts < MaxAttempts

\* the @retry decorator of _generate: whether another attempt follows a
\* given outcome of attempt number attempts
ShouldRetry(kind, attempts) == kind = "LLMRateLimitError" /\ attempts < MaxAttempts

\* GeminiInterviewer._parse_evaluation on the text of a response
ParseEvaluation(sig) ==
    IF sig.json = None THEN [kind |-> "ValueError", eval |-> DefaultEvaluation]
    ELSE IF ~sig.json[1].valid THEN [kind |-> "ValueError", eval |-> DefaultEvaluation]
    ELSE LET data == sig.json[1]
             Score(k) == IF k \in DOMAIN data.scores THEN data.scores[k] ELSE Some(5)
             Tip(k) == IF k \in DOMAIN data.tips THEN data.tips[k] ELSE ""
         IN IF \E k \in {"technical_accuracy", "clarity", "depth", "completeness"} :
                  Score(k) = None
            THEN [kind |-> "ValueError", eval |-> DefaultEvaluation]
            ELSE [kind |-> "parsed",
                  eval |-> AnswerEvaluation(Score("technical_accuracy")[1],
                                            Score("clarity")[1], Score("depth")[1],
                                            Score("completeness")[1],
                                            Tip("improvement_tip"),
                                            Tip("positive_note"))]

InitGemini ==
    /\ mode = "gemini"
    /\ api_key \in BOOLEAN
    /\ now = 0
    /\ orchs = (0 :> OrchStartSession(NewOrchestrator, UuidPool[1], "resume", "jd", 0))
    /\ sessions = <<>>
    /\ session_created = <<>>
    /\ files = <<>>
    /\ inflight = <<>>
    /\ next_uuid = 1
    /\ ended = {}
    /\ calls = 0
    /\ last = NoResult

\* the adapter call in progress: the attempts made, what the last attempt
\* raised ("" for a text) and whether the call has returned or raised
GeminiCall(op, text, duration, coaching) ==
    [op |-> op, attempts |-> 0, raised |-> "", done |-> FALSE, text |-> text,
     duration |-> duration, coaching |-> coaching]

\* get_next_question up to the first attempt of _generate
GeminiGetNextQuestion ==
    /\ mode = "gemini"
    /\ calls < MaxCalls
    /\ calls' = calls + 1
    /\ IF inflight = <<>> THEN TRUE ELSE inflight[1].done
    /\ LET o == GnqBegin(orchs[0])
       IN IF ~api_key
          THEN /\ orchs' = (0 :> UpdateState(o, "ERROR"))
               /\ inflight' = <<>>
               /\ last' = Result("get_next_question", o.session[1].session_id, "raised",
                                 "MissingAPIKeyError", "ERROR")
          ELSE /\ orchs' = (0 :> o)
               /\ inflight' = <<GeminiCall("question", <<>>, <<0, 1>>, NoCoaching)>>
               /\ last' = NoResult
    /\ UNCHANGED <<mode, api_key, now, sessions, session_created, files,
                   next_uuid, ended>>

\* process_answer up to the first attempt of evaluate_answer's _generate
GeminiProcessAnswer(audio) ==
    /\ mode = "gemini"
    /\ calls < MaxCalls
    /\ calls' = calls + 1
    /\ IF inflight = <<>> THEN TRUE ELSE inflight[1].done
    /\ LET o == orchs[0]
           sid == o.session[1].session_id
       IN IF audio.speech = None
          THEN /\ orchs' = (0 :> UpdateState(UpdateState(o, "EVALUATING"), "ERROR"))
               /\ inflight' = <<>>
               /\ last' = Result("process_answer", sid, "raised",
                                 "TranscriptionError", "ERROR")
          ELSE LET transcript == audio.speech[1]
                   c == PaCoach(o, transcript, audio.chunk, SampleRate)
                   o1 == PaBegin(o, transcript, audio.chunk, SampleRate)
               IN IF ~api_key
                  THEN /\ orchs' = (0 :> UpdateState(o1, "ERROR"))
                       /\ inflight' = <<>>
                       /\ last' = Result("process_answer", sid, "raised",
                                         "MissingAPIKeyError", "ERROR")
                  ELSE /\ orchs' = (0 :> o1)
                       /\ inflight' = <<GeminiCall("evaluate", transcript,
                                            AudioDuration(audio.chunk, SampleRate),
                                            c.feedback)>>
                       /\ last' = NoResult
    /\ UNCHANGED <<mode, api_key, now, sessions, session_created, files,
                   next_uuid, ended>>

\* one attempt of _generate; after the last one, the rest of the caller
GenerateAttempt(sig) ==
    /\ mode = "gemini"
    /\ inflight # <<>>
    /\ ~inflight[1].done
    /\ LET r == inflight[1]
           g == GenerateOnce(sig)
           n == r.attempts + 1
           o == orchs[0]
           sid == o.session[1].session_id
           raised == IF g.kind = "LLMRateLimitError" THEN "RetryError"
                     ELSE IF g.kind = "text" THEN "" ELSE g.kind
       IN IF ShouldRetry(g.kind, n)
          THEN /\ inflight' = <<[r EXCEPT !.attempts = n, !.raised = g.kind]>>
               /\ last' = Result("_generate", sid, "retry", g.kind, OrchState(o))
               /\ UNCHANGED orchs
          ELSE IF r.op = "question"
          THEN LET gen == [kind |-> IF g.kind = "text" THEN "text" ELSE raised,
                           text |-> g.text]
               IN /\ orchs' = (0 :> GnqFinish(o, gen))
                  /\ inflight' = <<[r EXCEPT !.attempts = n, !.raised = raised,
                                             !.done = TRUE]>>
                  /\ last' = Result("get_next_question", sid,
                                    IF gen.kind = "text" THEN "ok" ELSE "raised",
                                    raised, OrchState(orchs'[0]))
          ELSE LET resp == IF g.kind = "text" THEN ParseEvaluation(sig)
                           ELSE [kind |-> raised, eval |-> DefaultEvaluation]
               IN /\ orchs' = (0 :> RecordExchange(o, r.text, r.duration,
                                                   EvaluateAnswer(resp), r.coaching, now))
                  /\ inflight' = <<[r EXCEPT !.attempts = n,
                                             !.raised = IF resp.kind = "parsed" THEN ""
                                                        ELSE resp.kind,
                                             !.done = TRUE]>>
                  /\ last' = Result("process_answer", sid, "ok", "",
                                    OrchState(orchs'[0]))
    /\ UNCHANGED <<mode, api_key, now, sessions, session_created, files,
                   next_uuid, ended, calls>>

NextGemini ==
    \/ GeminiGetNextQuestion
    \/ \E audio \in {a \in AudioInputs : a.bytes >= MinAudioBytes} :
          GeminiProcessAnswer(audio)
    \/ \E sig \in Signals : GenerateAttempt(sig)

SpecGemini == InitGemini /\ [][NextGemini]_vars

(***************************************************************************)
(* src/infra/speech/stt.py: the constructions of WhisperSTT by two threads. *)
(* Thread 1 is the executor thread of the startup warm-up, which builds one *)
(* WhisperSTT; thread 2 is the event loop, whose handlers build one with    *)
(* every InterviewOrchestrator.  Object 0 holds the class attributes        *)
(* _model_cache and _model_loaded, WHISPER_AVAILABLE, and the numbers of    *)
(* runs of _initialize_model begun and failed; inflight[t] is the position  *)
(* of thread t inside the constructor.                                      *)
(***************************************************************************)
InitStt ==
    /\ mode = "stt"
    /\ api_key = TRUE
    /\ now = 0
    /\ \E available \in BOOLEAN :
          orchs = (0 :> [available |-> available, model_cache |-> None,
                         model_loaded |-> FALSE, started |-> 0, failed |-> 0])
    /\ sessions = <<>>
    /\ session_created = <<>>
    /\ files = <<>>
    /\ inflight = <<[pc |-> "idle", model |-> 0], [pc |-> "idle", model |-> 0]>>
    /\ next_uuid = 0
    /\ ended = {}
    /\ calls = 0
    /\ last = NoResult

\* where a thread is once its constructor has returned: the warm-up thread
\* has ended, the event loop is free for the next handler
SttReturned(t) == IF t = 1 THEN "ended" ELSE "idle"

\* WhisperSTT.__init__ up to the call of _initialize_model
SttInit(t) ==
    /\ mode = "stt"
    /\ inflight[t].pc = "idle"
    /\ calls < MaxCalls
    /\ calls' = calls + 1
    /\ IF orchs[0].available /\ ~orchs[0].model_loaded
       THEN /\ orchs' = [orchs EXCEPT ![0].started = @ + 1]
            /\ inflight' = [inflight EXCEPT ![t] = [pc |-> "load",
                                                     model |-> orchs[0].started + 1]]
       ELSE /\ inflight' = [inflight EXCEPT ![t].pc = SttReturned(t)]
            /\ UNCHANGED orchs
    /\ UNCHANGED <<mode, api_key, now, sessions, session_created, files,
                   next_uuid, ended, last>>

\* _initialize_model: the device choice and the WhisperModel(...) call
SttLoadModel(t, ok) ==
    /\ mode = "stt"
    /\ inflight[t].pc = "load"
    /\ inflight' = [inflight EXCEPT ![t].pc = IF ok THEN "store" ELSE "except"]
    /\ UNCHANGED <<mode, api_key, now, orchs, sessions, session_created, files,
                   next_uuid, ended, calls, last>>

\* WhisperSTT._model_cache = <the model just built>
SttSetCache(t) ==
    /\ mode = "stt"
    /\ inflight[t].pc = "store"
    /\ orchs' = [orchs EXCEPT ![0].model_cache = Some(inflight[t].model)]
    /\ inflight' = [inflight EXCEPT ![t].pc = "flag"]
    /\ UNCHANGED <<mode, api_key, now, sessions, session_created, files,
                   next_uuid, ended, calls, last>>

\* WhisperSTT._model_loaded = True, and the constructor returns
SttSetLoaded(t) ==
    /\ mode = "stt"
    /\ inflight[t].pc = "flag"
    /\ orchs' = [orchs EXCEPT ![0].model_loaded = TRUE]
    /\ inflight' = [inflight EXCEPT ![t].pc = SttReturned(t)]
    /\ UNCHANGED <<mode, api_key, now, sessions, session_created, files,
                   next_uuid, ended, calls, last>>

\* the except branch of _initialize_model, and the constructor returns
SttExcept(t) ==
    /\ mode = "stt"
    /\ inflight[t].pc = "except"
    /\ orchs' = [orchs EXCEPT ![0].model_cache = None,
                              ![0].model_loaded = FALSE,
                              ![0].failed = @ + 1]
    /\ inflight' = [inflight EXCEPT ![t].pc = SttReturned(t)]
    /\ UNCHANGED <<mode, api_key, now, sessions, session_created, files,
                   next_uuid, ended, calls, last>>

NextStt ==
    \E t \in {1, 2} :
       \/ SttInit(t)
       \/ \E ok \in BOOLEAN : SttLoadModel(t, ok)
       \/ SttSetCache(t)
       \/ SttSetLoaded(t)
       \/ SttExcept(t)

SpecStt == InitStt /\ [][NextStt]_vars

(***************************************************************************)
(* Properties                                                               *)
(***************************************************************************)
\* the orchestrator objects that hold the same session before and after a step
Kept ==
    {i \in DOMAIN orchs \cap DOMAIN orchs' :
        /\ orchs[i].session # None
        /\ orchs'[i].session # None
        /\ orchs[i].session[1].session_id = orchs'[i].session[1].session_id}

\* the in-memory sessions of a state
LiveSessions == {orchs[i].session[1] : i \in {j \in DOMAIN orchs : orchs[j].session # None}}

TerminalStates == {"COMPLETE", "ERROR"}

\* C1: a session whose state is COMPLETE or ERROR keeps that state through
\* every later operation on it
C1_TerminalStateIsKept ==
    [][\A i \in Kept :
          OrchState(orchs[i]) \in TerminalStates
              => OrchState(orchs'[i]) = OrchState(orchs[i])]_vars

\* the exceptions raised by a step inside get_next_question or process_answer
StepFailures ==
    {"LLMConnectionError", "LLMResponseError", "MissingAPIKeyError", "TranscriptionError"}

\* C2: when a step inside get_next_question or process_answer fails, the call
\* raises that failure and the session's state is ERROR when it does
C2_FailureSetsError ==
    (/\ last.op \in {"get_next_question", "process_answer", "submit_audio_answer"}
     /\ last.error \in StepFailures)
        => /\ last.status \in {"raised", "500"}
           /\ last.state = "ERROR"

\* a question generation has just failed with a connection error
C2_Witness ==
    /\ last.op = "get_next_question"
    /\ last.error = "LLMConnectionError"
    /\ last.state = "ERROR"

C4_SecondEndIsRejected ==
    [][(/\ calls' = calls + 1
        /\ last'.op = "end_session"
        /\ last'.status \in {"ok", "200"})
          => last'.key \notin ended]_vars

\* C5: ended_at is unset, in memory and on disk, for every session that
\* end_session has not completed for; when end_session returns, the
\* session's state is COMPLETE and its ended_at is set
C5_EndedAtSetByEndSession ==
    /\ \A s \in LiveSessions : s.session_id \notin ended => s.ended_at = None
    /\ \A p \in DOMAIN files :
          files[p].doc.session_id \notin ended => files[p].doc.ended_at = None
    /\ (last.op = "end_session" /\ last.status \in {"ok", "200"})
          => /\ last.state = "COMPLETE"
             /\ last.key \in ended
             /\ mode = "direct"
                   => /\ orchs[0].session[1].state = "COMPLETE"
                      /\ orchs[0].session[1].ended_at = Some(now)

\* end_session has just returned on a session that recorded an answer
C5_Witness ==
    /\ mode = "direct"
    /\ last.op = "end_session"
    /\ last.status = "ok"
    /\ orchs[0].session[1].ended_at # None
    /\ orchs[0].session[1].exchanges # <<>>

\* how far total_questions_asked is ahead of the recorded exchanges
Ahead(s) == s.total_questions_asked - Len(s.exchanges)

\* C6 as stated: total_questions_asked - len(exchanges) is 0 or 1 in every
\* state of every session
C6_AtMostOneAhead == \A s \in LiveSessions : Ahead(s) \in {0, 1}

\* C6 amended: total_questions_asked - len(exchanges) is 0 when a session is
\* started or restored and after every recorded answer, never negative, and
\* otherwise changes only by a successful get_next_question, which raises it
\* by one
C6_AheadCountsQuestionsSinceAnswer ==
    [][/\ \A i \in DOMAIN orchs' \ Kept :
            orchs'[i].session # None => Ahead(orchs'[i].session[1]) = 0
       /\ \A i \in Kept :
            LET s == orchs[i].session[1]
                t == orchs'[i].session[1]
            IN /\ Ahead(t) >= 0
               /\ Len(t.exchanges) # Len(s.exchanges) => Ahead(t) = 0
               /\ Len(t.exchanges) = Len(s.exchanges)
                     => \/ Ahead(t) = Ahead(s)
                        \/ /\ Ahead(t) = Ahead(s) + 1
                           /\ last'.op = "get_next_question"
                           /\ last'.status \in {"ok", "200"}]_vars

\* two questions were generated since the last recorded answer
C6_Witness == \E s \in LiveSessions : Ahead(s) = 2 /\ s.state = "LISTENING"

\* C7: every operation on a session leaves the exchanges it had as a prefix
\* of the exchanges it has afterwards, and a session restored from the
\* repository holds the persisted exchanges in their order
C7_ExchangesOnlyAppended ==
    [][/\ \A i \in Kept :
            IsPrefix(orchs[i].session[1].exchanges, orchs'[i].session[1].exchanges)
       /\ \A k \in DOMAIN sessions' \ DOMAIN sessions :
            RepoLoad(files, k) # None
              => IsPrefix(files[SessionPath(k)].doc.exchanges,
                          SessionToDict(orchs'[sessions'[k]].session[1]).exchanges)]_vars

\* a session that recorded an answer and was ended is live again: it was
\* restored from the repository with its exchange
C7_Witness ==
    \E k \in DOMAIN sessions :
        /\ k \in ended
        /\ last.op = "get_session_stats"
        /\ last.status = "200"
        /\ Len(orchs[sessions[k]].session[1].exchanges) >= 1

\* C8: whenever no request is in flight, the record stored for a live
\* session equals the in-memory session in state, current_question,
\* total_questions_asked, ended_at and exchanges (stated here for the
\* sessions that have a stored record)
C8_PersistedEqualsMemory ==
    (mode = "api" /\ inflight = <<>>)
      => \A k \in DOMAIN sessions :
            LET s == orchs[sessions[k]].session[1]
                p == RepoLoad(files, s.session_id)
            IN p # None
                 => /\ p[1].state = s.state
                    /\ p[1].current_question = s.current_question
                    /\ p[1].total_questions_asked = s.total_questions_asked
                    /\ p[1].ended_at = s.ended_at
                    /\ p[1].exchanges = s.exchanges

\* C9: every session id in the live map has a record the repository can load
C9_LiveSessionsAreLoadable ==
    \A k \in DOMAIN sessions : RepoLoad(files, k) # None

\* C10: load(s.session_id) after save(s) returns a session equal to s in
\* every field, its exchanges with their evaluation, coaching feedback,
\* alert level and timestamp included and in the same order
C10_RoundTrip ==
    (/\ mode = "repository"
     /\ last.op = "load"
     /\ SessionPath(orchs[0].session[1].session_id) \in DOMAIN files)
        => orchs[1].session = orchs[0].session

\* an ended session with two exchanges, one bare and one with evaluation and
\* coaching feedback, was saved and loaded back
C10_Witness ==
    /\ mode = "repository"
    /\ last.op = "load"
    /\ last.status = "ok"
    /\ orchs[1].session # None
    /\ orchs[1].session[1].ended_at # None
    /\ Len(orchs[1].session[1].exchanges) = 2
    /\ orchs[1].session[1].exchanges[1].evaluation = None
    /\ orchs[1].session[1].exchanges[1].coaching_feedback = None
    /\ orchs[1].session[1].exchanges[2].evaluation # None
    /\ orchs[1].session[1].exchanges[2].coaching_feedback # None

\* C11: while a save runs and after it, whether it succeeds or fails, the
\* file of the session id holds the complete document stored before or the
\* complete new one and a load returns one of these two sessions; a save
\* that fails raises, leaves the stored record as it was and leaves no
\* temporary file; a save that succeeds leaves the new document and no
\* temporary file
C11_SaveIsAtomic ==
    mode = "save"
      => /\ SaveStem \in DOMAIN files
              => \/ files[SaveStem] = [doc |-> SessionToDict(orchs[0].session[1]),
                                        mtime |-> now]
                 \/ /\ orchs[2].session # None
                    /\ files[SaveStem] = StoredBefore[SaveStem]
         /\ SaveStem \notin DOMAIN files => orchs[2].session = None
         /\ last.op = "load"
              => orchs[1].session \in {orchs[2].session, orchs[0].session}
         /\ (last.op = "save" /\ last.status = "raised")
              => /\ files = StoredBefore
                 /\ last.error # ""
         /\ (last.op = "save" /\ last.status = "ok")
              => files = RepoSave(<<>>, orchs[0].session[1], now)

\* a load made while the new document was half written returned the session
\* stored before
C11_Witness ==
    /\ mode = "save"
    /\ last.op = "load"
    /\ inflight # <<>>
    /\ inflight[1].pc = "writing"
    /\ orchs[2].session # None
    /\ orchs[1].session = orchs[2].session
    /\ orchs[0].session # orchs[2].session

\* C12: for every session id, whatever characters it holds, the file used
\* by save, load and delete has the data directory as its parent, and its
\* name is the id's alphanumeric, '-' and '_' characters in order followed
\* by ".json"; no file exists anywhere else
C12_FileIsInsideDataDir ==
    mode = "path"
      => LET id == orchs[0].session[1].session_id
             path == SessionFile(id)
             n == Len(DataDir.parts)
             allowed == {i \in 1..Len(id) : id[i] \in {"a", "1", "-", "_"}}
             name == path.parts[n + 1]
         IN /\ path.absolute = DataDir.absolute
            /\ Len(path.parts) = n + 1
            /\ SubSeq(path.parts, 1, n) = DataDir.parts
            /\ Len(name) = Cardinality(allowed) + 5
            /\ \A k \in 1..Cardinality(allowed) :
                  \E i \in allowed :
                     /\ Cardinality({j \in allowed : j <= i}) = k
                     /\ name[k] = id[i]
            /\ SubSeq(name, Cardinality(allowed) + 1, Len(name)) = <<".", "j", "s", "o", "n">>
            /\ DOMAIN files \subseteq {path}

\* a session whose id starts with "./" was saved
C12_Witness ==
    /\ mode = "path"
    /\ last.op = "save"
    /\ Len(orchs[0].session[1].session_id) = 3
    /\ SubSeq(orchs[0].session[1].session_id, 1, 2) = <<".", "/">>
    /\ SessionFile(orchs[0].session[1].session_id) \in DOMAIN files

\* C13: with two sessions started, under every interleaving of their
\* question and answer requests, a step of a request for one session id
\* leaves the other session's orchestrator (its session with
\* current_question and exchanges, its question context, its coach
\* history), its stored record and its suspended requests as they were,
\* and what it makes of its own orchestrator is what the same operation
\* makes of that orchestrator given nothing but the orchestrator, the
\* session's own suspended requests and the step's input
C13_SessionsAreIndependent ==
    [][\A k \in TwoIds :
          (mode = "api" /\ TwoIds \subseteq DOMAIN sessions)
            => LET \* the id of the request the step suspends or answers
                   step_key == IF Len(inflight') > Len(inflight)
                               THEN inflight'[Len(inflight')].key ELSE last'.key
                   RequestsOf(infl) == SelectSeq(infl, LAMBDA r : r.key = k)
                   o == orchs[sessions[k]]
                   own == RequestsOf(inflight)
                   alone ==
                       {o, GnqBegin(o), UpdateState(UpdateState(o, "EVALUATING"), "ERROR")}
                       \cup {PaBegin(o, a.speech[1], a.chunk, SampleRate) :
                                a \in {x \in AudioInputs : x.speech # None}}
                       \cup {GnqFinish(o, gen) :
                                gen \in {g \in GenOutcomes :
                                            \E n \in 1..Len(own) : own[n].op = "gnq"}}
                       \cup {RecordExchange(o, own[n].text, own[n].duration,
                                            EvaluateAnswer(resp), own[n].coaching, now) :
                                n \in {i \in 1..Len(own) :
                                          own[i].op \in {"submit", "audio"}},
                                resp \in EvalOutcomes}
               IN /\ sessions'[k] = sessions[k]
                  /\ IF step_key # k
                     THEN /\ orchs'[sessions[k]] = o
                          /\ files'[SessionPath(k)] = files[SessionPath(k)]
                          /\ RequestsOf(inflight') = own
                     ELSE /\ orchs'[sessions[k]] \in alone
                          /\ Len(inflight') > Len(inflight)
                               => /\ inflight'[Len(inflight')].o = sessions[k]
                                  /\ inflight'[Len(inflight')].question
                                        \in {"", o.session[1].current_question}
    ]_vars

\* the first session's answer was recorded while a question request of the
\* second session was suspended
C13_Witness ==
    /\ mode = "api"
    /\ TwoIds \subseteq DOMAIN sessions
    /\ last.op = "submit_answer"
    /\ last.key = UuidPool[1]
    /\ last.status = "200"
    /\ Len(orchs[sessions[UuidPool[1]]].session[1].exchanges) = 1
    /\ orchs[sessions[SecondId]].session[1].exchanges = <<>>
    /\ \E n \in 1..Len(inflight) : inflight[n].key = SecondId /\ inflight[n].op = "gnq"

\* C14: at any time at most one get_next_question or answer submission is
\* between its start and its completion for one session id (no two
\* suspended requests carry the same id)
C14_OneRequestInProgressPerSession ==
    \A i, j \in 1..Len(inflight) :
       i # j => inflight[i].key # inflight[j].key

\* C15: a sweep of the live map (the background task's, or the one at the
\* start of start_session) removes every session whose creation timestamp
\* is older than SESSION_TIMEOUT_HOURS and keeps every other one with its
\* orchestrator and timestamp; and no step removes a stored record unless
\* its last modification is older than DISK_MAX_AGE_HOURS, so the record of
\* a swept session stays loadable until then
C15_SweepRemovesOnlyTheStale ==
    [][mode = "api"
         => /\ (BackgroundCleanup \/ \E ok \in BOOLEAN : ApiStartSession("resume", "jd", ok))
                 => \A sid \in DOMAIN session_created :
                       IF session_created[sid] < now - SESSION_TIMEOUT_HOURS
                       THEN /\ sid \notin DOMAIN sessions'
                            /\ sid \notin DOMAIN session_created'
                       ELSE /\ sid \in DOMAIN session_created'
                            /\ session_created'[sid] = session_created[sid]
                            /\ sid \in DOMAIN sessions
                                 => /\ sid \in DOMAIN sessions'
                                    /\ sessions'[sid] = sessions[sid]
                                    /\ orchs'[sessions[sid]] = orchs[sessions[sid]]
            /\ \A sid \in {UuidPool[n] : n \in 1..next_uuid} :
                  (/\ RepoLoad(files, sid) # None
                   /\ ~(files[SessionPath(sid)].mtime < now - DISK_MAX_AGE_HOURS))
                    => RepoLoad(files', sid) # None
    ]_vars

\* the session was swept from the live map two hours and more after its
\* start and its record is still loadable
C15_Witness ==
    /\ mode = "api"
    /\ now = 3
    /\ next_uuid = 1
    /\ UuidPool[1] \notin DOMAIN sessions
    /\ UuidPool[1] \notin DOMAIN session_created
    /\ UuidPool[1] \notin ended
    /\ RepoLoad(files, UuidPool[1]) # None

\* C16: a request (get_next_question, answer submission, get_session_stats
\* or end_session) that arrives for a session id after the session was
\* swept from the live map by the session timeout is answered 404
C16_EvictedSessionIsNotFound ==
    [][\A k \in {UuidPool[n] : n \in 1..next_uuid} :
          (/\ mode = "api"
           /\ k \notin DOMAIN sessions
           /\ k \notin ended
           /\ calls' = calls + 1)
            => /\ last'.key = k => last'.status = "404"
               /\ \A n \in 1..Len(inflight') :
                     inflight'[n].key = k => n <= Len(inflight) /\ inflight[n] = inflight'[n]
    ]_vars

\* C17: the primary_alert get_coaching_feedback returns is the volume alert
\* whenever the volume status is not OK, whatever the pace and the filler
\* count; with the volume OK it is the pace alert whenever the pace status
\* is not OK, whatever the filler count; with both OK it is the filler alert
\* when filler_count > 5 and the positive message otherwise
C17_AlertPrecedence ==
    (mode = "coach" /\ inflight[1].op = "get_coaching_feedback")
      => LET fb == inflight[1].returned[1]
         IN /\ fb.volume_status # "OK"
                 => /\ fb.volume_status = COACHING_ALERTS.volume_low
                    /\ fb.primary_alert = COACHING_ALERTS.volume_low
            /\ (fb.volume_status = "OK" /\ fb.pace_status # "OK")
                 => /\ fb.pace_status \in {COACHING_ALERTS.pace_fast,
                                           COACHING_ALERTS.pace_slow}
                    /\ fb.primary_alert = fb.pace_status
            /\ (fb.volume_status = "OK" /\ fb.pace_status = "OK" /\ fb.filler_count > 5)
                 => fb.primary_alert = COACHING_ALERTS.fillers_high
            /\ (fb.volume_status = "OK" /\ fb.pace_status = "OK" /\ fb.filler_count <= 5)
                 => fb.primary_alert = COACHING_ALERTS.good

\* a quiet, fast answer with eleven fillers got the volume alert
C17_Witness ==
    /\ mode = "coach"
    /\ inflight[1].op = "get_coaching_feedback"
    /\ inflight[1].returned[1].volume_status # "OK"
    /\ inflight[1].returned[1].pace_status = COACHING_ALERTS.pace_fast
    /\ inflight[1].returned[1].filler_count > 10
    /\ inflight[1].returned[1].primary_alert = COACHING_ALERTS.volume_low

\* C18: alert_level is WARNING when a volume alert or a pace alert fires or,
\* with neither, the filler count is more than 5 and at most 10; it is
\* CRITICAL when the filler count exceeds 10 with no volume or pace alert
C18_AlertLevel ==
    (mode = "coach" /\ inflight[1].op = "get_coaching_feedback")
      => LET fb == inflight[1].returned[1]
             alerted == fb.volume_status # "OK" \/ fb.pace_status # "OK"
         IN /\ alerted
                 => /\ fb.alert_level = "WARNING"
                    /\ fb.primary_alert \in {fb.volume_status, fb.pace_status} \ {"OK"}
            /\ (~alerted /\ fb.filler_count > 5 /\ fb.filler_count <= 10)
                 => fb.alert_level = "WARNING"
            /\ (~alerted /\ fb.filler_count > 10) => fb.alert_level = "CRITICAL"

\* C19: analyze_pace on a text with at least one word and a duration > 0
\* returns the slow-down alert iff wordCount / duration * 60 > WPM_FAST, the
\* pick-up-pace alert iff it is < WPM_SLOW and OK otherwise, a pace equal to
\* a cutoff included, and appends that one value to the history; for a
\* duration <= 0 or a blank text it returns OK and leaves the history as it was
C19_AnalyzePace ==
    [][(mode = "coach" /\ calls' = calls + 1 /\ inflight'[1].op = "analyze_pace")
         => LET f == inflight'[1]
                status == f.returned[1]
                history == orchs[0].coach.wpm_history
                words == Len(Split(f.text))
                num == words * 60 * f.duration[2]
                den == f.duration[1]
            IN IF den > 0 /\ words >= 1
               THEN /\ status = COACHING_ALERTS.pace_fast <=> num > WPM_FAST * den
                    /\ status = COACHING_ALERTS.pace_slow <=> num < WPM_SLOW * den
                    /\ status = "OK" <=> (num <= WPM_FAST * den /\ num >= WPM_SLOW * den)
                    /\ Len(orchs'[0].coach.wpm_history) = Len(history) + 1
                    /\ SubSeq(orchs'[0].coach.wpm_history, 1, Len(history)) = history
                    /\ LET wpm == orchs'[0].coach.wpm_history[Len(history) + 1]
                       IN wpm[1] * den = num * wpm[2]
               ELSE /\ status = "OK"
                    /\ orchs'[0].coach.wpm_history = history
    ]_vars

\* analyze_pace returned OK for a pace of exactly 160 words per minute and
\* recorded it
C19_Witness ==
    /\ mode = "coach"
    /\ inflight[1].op = "analyze_pace"
    /\ inflight[1].returned = Some("OK")
    /\ inflight[1].duration = <<3, 8>>
    /\ orchs[0].coach.wpm_history = <<<<WPM_FAST, 1>>>>

C21_AnalyzeVolume ==
    [][(mode = "coach" /\ calls' = calls + 1 /\ inflight'[1].op = "analyze_volume")
         => LET f == inflight'[1]
                status == f.returned[1]
                chunk == f.audio[1]
                history == orchs[0].coach.volume_history
                size == SumSeq([i \in 1..Len(chunk) |-> chunk[i].n])
                \* sum of the squared samples, samples in thousandths
                squares == SumSeq([i \in 1..Len(chunk) |-> chunk[i].amp * chunk[i].amp * chunk[i].n])
                th == VOLUME_THRESHOLD
            IN IF size > 0
               THEN /\ status = COACHING_ALERTS.volume_low
                         <=> squares * th[2] * th[2] < th[1] * th[1] * size * 1000000
                    /\ status # COACHING_ALERTS.volume_low => status = "OK"
                    /\ Len(orchs'[0].coach.volume_history) = Len(history) + 1
                    /\ SubSeq(orchs'[0].coach.volume_history, 1, Len(history)) = history
                    /\ LET rms == orchs'[0].coach.volume_history[Len(history) + 1]
                       IN /\ rms[1] >= 0 /\ rms[2] > 0
                          /\ rms[1] * rms[1] * size * 1000000 = squares * rms[2] * rms[2]
               ELSE /\ status = "OK"
                    /\ orchs'[0].coach.volume_history = history
    ]_vars

\* analyze_volume returned OK for a chunk whose root mean square is exactly
\* the threshold and recorded it
C21_Witness ==
    /\ mode = "coach"
    /\ inflight[1].op = "analyze_volume"
    /\ inflight[1].returned = Some("OK")
    /\ orchs[0].coach.volume_history = <<VOLUME_THRESHOLD>>

\* C22: get_average_wpm and get_average_volume are the mean of the values
\* in the coach's histories (0 when a history is empty); start_session
\* leaves both histories empty, so the averages of the new session are 0
\* until the session records a value of its own; and between two
\* start_session calls the histories only grow at their end
C22_CoachHistoryPerSession ==
    [][mode = "direct"
         => LET c == orchs'[0].coach
                Mean(h, avg) ==
                    IF h = <<>> THEN avg = <<0, 1>>
                    ELSE avg[1] * RatSum(h)[2] * Len(h) = RatSum(h)[1] * avg[2]
            IN /\ Mean(c.wpm_history, GetAverageWpm(c))
               /\ Mean(c.volume_history, GetAverageVolume(c))
               /\ IF last'.op = "start_session"
                  THEN /\ c.wpm_history = <<>>
                       /\ c.volume_history = <<>>
                       /\ GetSessionStats(orchs'[0]).average_wpm = <<0, 1>>
                  ELSE /\ IsPrefix(orchs[0].coach.wpm_history, c.wpm_history)
                       /\ IsPrefix(orchs[0].coach.volume_history, c.volume_history)
    ]_vars

\* the second session was started on an orchestrator whose coach held the
\* pace of the first session's answer, and its average pace is 0
C22_Witness ==
    /\ mode = "direct"
    /\ last.op = "start_session"
    /\ orchs[0].session[1].session_id = UuidPool[1]
    /\ orchs[0].session[1].session_id # SecondId
    /\ GetAverageWpm(orchs[0].coach) = <<0, 1>>
    /\ orchs[0].coach.volume_history = <<>>

\* C23: every key of the live map equals the session_id of the session its
\* orchestrator holds, and no two keys have orchestrators holding a session
\* with the same session_id
C23_OneOrchestratorPerSession ==
    /\ \A k \in DOMAIN sessions :
          orchs[sessions[k]].session # None
            => orchs[sessions[k]].session[1].session_id = k
    /\ \A k1, k2 \in DOMAIN sessions :
          (/\ k1 # k2
           /\ orchs[sessions[k1]].session # None
           /\ orchs[sessions[k2]].session # None)
            => orchs[sessions[k1]].session[1].session_id
                 # orchs[sessions[k2]].session[1].session_id

\* C24: a completed text submission leaves the orchestrator as process_answer
\* would for the same question, text and duration: state EVALUATING, the pace
\* in the coach's history, the exchange with the coach's feedback appended,
\* the question context extended, and the reported average pace the coach's
C24_TextPathMatchesAudioPath ==
    [][\A n \in 1..Len(inflight) :
          (/\ inflight[n].op = "submit"
           /\ inflight' = RemoveAt(inflight, n)
           /\ last'.op = "submit_answer"
           /\ inflight[n].o \in DOMAIN orchs')
            => LET r == inflight[n]
                   before == orchs[r.o]
                   after == orchs'[r.o]
                   c == GetCoachingFeedback(before.coach, r.text, r.duration, None)
                   exs == after.session[1].exchanges
               IN /\ OrchState(after) = "EVALUATING"
                  /\ after.coach.wpm_history = c.wpm_history
                  /\ Len(exs) = Len(before.session[1].exchanges) + 1
                  /\ exs[Len(exs)].answer = r.text
                  /\ exs[Len(exs)].coaching_feedback = Some(c.feedback)
                  /\ after.question_context[1].previous_answers
                       = Append(before.question_context[1].previous_answers, r.text)
                  /\ GetSessionStats(after).average_wpm
                       = GetAverageWpm([wpm_history |-> c.wpm_history,
                                        volume_history |-> c.volume_history])]_vars

\* C25: a get_next_question that reaches the adapter calls the opening-question
\* operation exactly when the session has had no question generated yet
C25_OpeningOnlyForTheFirstQuestion ==
    [][(/\ mode = "direct"
        /\ last'.op = "get_next_question"
        /\ last'.error # "SessionError")
         => (GnqOperation(GnqBegin(orchs[0])) = "generate_opening_question"
               <=> orchs[0].session[1].total_questions_asked = 0)]_vars

\* C26: after every attempt of _generate the call goes on to another attempt
\* exactly when the attempt raised LLMRateLimitError and fewer than 3 attempts
\* were made; an attempt that raised anything else, or returned, ends the
\* call, every attempt before it having been rate-limited; no call makes
\* more than 3 attempts
C26_RetryOnlyOnRateLimit ==
    [][(/\ inflight # <<>>
        /\ inflight' # <<>>
        /\ ~inflight[1].done
        /\ inflight'[1].attempts # inflight[1].attempts)
         => LET f == inflight'[1]
            IN /\ f.attempts = inflight[1].attempts + 1
               /\ f.attempts <= MaxAttempts
               /\ ~f.done <=> (f.raised = "LLMRateLimitError" /\ f.attempts < MaxAttempts)
               /\ f.raised = "RetryError" => f.attempts = MaxAttempts
               /\ inflight[1].attempts > 0 => inflight[1].raised = "LLMRateLimitError"
               /\ f.done <=> last'.op \in {"get_next_question", "process_answer"}]_vars

C26_Witness ==
    /\ mode = "gemini"
    /\ inflight # <<>>
    /\ inflight[1].done
    /\ inflight[1].attempts = MaxAttempts
    /\ inflight[1].raised = "RetryError"
    /\ last.op = "get_next_question"
    /\ last.error = "RetryError"

\* C27: when the evaluator's response is blocked, empty or has no parsable
\* evaluation, process_answer returns normally: the exchange is appended with
\* the evaluation whose four scores are 5, the question context is extended
\* and the session is not moved to ERROR
C27_MalformedEvaluationIsNotFatal ==
    [][(/\ mode = "gemini"
        /\ inflight # <<>>
        /\ inflight' # <<>>
        /\ ~inflight[1].done
        /\ inflight'[1].done
        /\ inflight'[1].op = "evaluate"
        /\ inflight'[1].raised \in {"ValueError", "LLMResponseError"})
         => LET before == orchs[0]
                after == orchs'[0]
                exs == after.session[1].exchanges
                ev == exs[Len(exs)].evaluation[1]
            IN /\ last'.op = "process_answer"
               /\ last'.status = "ok"
               /\ OrchState(after) = "EVALUATING"
               /\ Len(exs) = Len(before.session[1].exchanges) + 1
               /\ SubSeq(exs, 1, Len(exs) - 1) = before.session[1].exchanges
               /\ exs[Len(exs)].answer = inflight[1].text
               /\ ev.technical_accuracy = 5
               /\ ev.clarity = 5
               /\ ev.depth = 5
               /\ ev.completeness = 5
               /\ after.question_context[1].previous_answers
                    = Append(before.question_context[1].previous_answers,
                             inflight[1].text)]_vars

C27_Witness ==
    /\ mode = "gemini"
    /\ inflight # <<>>
    /\ inflight[1].done
    /\ inflight[1].op = "evaluate"
    /\ inflight[1].raised = "ValueError"
    /\ last.op = "process_answer"
    /\ last.status = "ok"
    /\ OrchState(orchs[0]) = "EVALUATING"
    /\ LET exs == orchs[0].session[1].exchanges
       IN /\ exs # <<>>
          /\ exs[Len(exs)].evaluation = Some(DefaultEvaluation)

\* C28: when the evaluation call ends with a connection failure or with the
\* rate limit still hit after the last attempt, process_answer raises that
\* failure and no exchange is recorded
C28_OtherFailuresPropagate ==
    [][(/\ mode = "gemini"
        /\ inflight # <<>>
        /\ inflight' # <<>>
        /\ ~inflight[1].done
        /\ inflight'[1].done
        /\ inflight'[1].op = "evaluate"
        /\ inflight'[1].raised \in {"LLMConnectionError", "RetryError"})
         => /\ last'.status = "raised"
            /\ last'.error = inflight'[1].raised
            /\ orchs'[0].session[1].exchanges = orchs[0].session[1].exchanges]_vars

\* C29: with no request in progress, the question context of every
\* orchestrator lists exactly the questions and the answers of its session's
\* exchanges, in order; and the orchestrator get_orchestrator would build
\* from the stored record has the question context of every orchestrator
\* whose session has the record's exchanges
C29_ContextMirrorsExchanges ==
    inflight = <<>> =>
      \A id \in DOMAIN orchs :
         orchs[id].session # None /\ orchs[id].question_context # None =>
           LET s == orchs[id].session[1]
               ctx == orchs[id].question_context[1]
               persisted == RepoLoad(files, s.session_id)
           IN /\ Len(ctx.previous_questions) = Len(ctx.previous_answers)
              /\ ctx.previous_questions
                   = [i \in 1..Len(s.exchanges) |-> s.exchanges[i].question]
              /\ ctx.previous_answers
                   = [i \in 1..Len(s.exchanges) |-> s.exchanges[i].answer]
              /\ (persisted # None /\ persisted[1].exchanges = s.exchanges)
                   => RestoredOrchestrator(persisted[1]).question_context
                        = Some(ctx)

\* a session with an answer that left the live map and was restored from its record
C29_Witness ==
    /\ inflight = <<>>
    /\ \E k \in DOMAIN sessions :
          LET o == orchs[sessions[k]]
          IN /\ o.session[1].started_at # Some(session_created[k])
             /\ o.session[1].exchanges # <<>>
             /\ o.question_context[1].previous_answers
                  = <<o.session[1].exchanges[1].answer>>
             /\ RepoLoad(files, k) = o.session

\* C30: in every session held by an orchestrator and in every session read
\* back from a stored record, total_filler_words is the sum of filler_count
\* over the exchanges that have coaching feedback, and average_wpm is the
\* mean of their words_per_minute, 0 when there are none
C30_AggregatesMatchExchanges ==
    LET Coached(s) == SelectSeq(s.exchanges, LAMBDA ex : ex.coaching_feedback # None)
        Fillers(s) == [i \in 1..Len(Coached(s)) |->
                         Coached(s)[i].coaching_feedback[1].filler_count]
        Paces(s) == [i \in 1..Len(Coached(s)) |->
                       Coached(s)[i].coaching_feedback[1].words_per_minute]
        Agrees(s) ==
            /\ s.total_filler_words = SumSeq(Fillers(s))
            /\ s.average_wpm = IF Coached(s) = <<>> THEN <<0, 1>>
                               ELSE RatDivInt(RatSum(Paces(s)), Len(Coached(s)))
    IN /\ \A id \in DOMAIN orchs :
             orchs[id].session # None => Agrees(orchs[id].session[1])
       /\ \A path \in DOMAIN files : Agrees(DictToSession(files[path].doc))

\* a session read back from its record after an answer with fillers, then
\* answered again
C30_Witness ==
    \E k \in DOMAIN sessions :
       LET s == orchs[sessions[k]].session[1]
       IN /\ s.started_at # Some(session_created[k])
          /\ Len(s.exchanges) = 2
          /\ s.total_filler_words > 0
          /\ RatLess(<<0, 1>>, s.average_wpm)
          /\ RepoLoad(files, k) = Some(s)

\* C31: no step other than start_session changes session_id, resume_text,
\* job_description or started_at of a session an orchestrator holds; a record
\* that is written again keeps them; a session that enters the live map from
\* its record has the record's four fields, which are those of the session
\* held under that id before
C31_IdentityFieldsAreFixed ==
    [][LET Fixed(s) == <<s.session_id, s.resume_text, s.job_description, s.started_at>>
       IN /\ \A id \in DOMAIN orchs \cap DOMAIN orchs' :
                (/\ orchs[id].session # None
                 /\ orchs'[id].session # None
                 /\ last'.op # "start_session")
                  => Fixed(orchs'[id].session[1]) = Fixed(orchs[id].session[1])
          /\ \A path \in DOMAIN files \cap DOMAIN files' :
                Fixed(DictToSession(files'[path].doc))
                  = Fixed(DictToSession(files[path].doc))
          /\ \A k \in DOMAIN sessions' \ DOMAIN sessions :
                SessionPath(k) \in DOMAIN files
                  => Fixed(orchs'[sessions'[k]].session[1])
                       = Fixed(DictToSession(files[SessionPath(k)].doc))
          /\ \A id \in DOMAIN orchs', path \in DOMAIN files' :
                (/\ orchs'[id].session # None
                 /\ path = SessionPath(orchs'[id].session[1].session_id))
                  => Fixed(DictToSession(files'[path].doc))
                       = Fixed(orchs'[id].session[1])]_vars

\* a session restored from its record at a later hour and answered then
C31_Witness ==
    /\ last.op = "submit_answer"
    /\ last.status = "200"
    /\ now > 0
    /\ \E k \in DOMAIN sessions :
          LET s == orchs[sessions[k]].session[1]
          IN /\ session_created[k] = now
             /\ s.exchanges # <<>>
             /\ s.session_id = k
             /\ s.started_at = Some(0)
             /\ s.resume_text = "resume"
             /\ s.job_description = "jd"
             /\ RepoLoad(files, k) = Some(s)

\* C32: a sweep removes a session from the live map only if no answer was
\* recorded in it during the SESSION_TIMEOUT_HOURS before the sweep
C32_SweepEvictsOnlyIdleSessions ==
    [][(BackgroundCleanup \/ \E ok \in BOOLEAN : ApiStartSession("resume", "jd", ok))
         => \A sid \in DOMAIN sessions \ DOMAIN sessions' :
               LET exs == orchs[sessions[sid]].session[1].exchanges
               IN \A i \in 1..Len(exs) :
                     exs[i].timestamp < now - SESSION_TIMEOUT_HOURS]_vars

\* C33: of the runs of _initialize_model that were begun, at most one is in
\* progress or has succeeded
C33_ModelInitializedAtMostOnce ==
    mode = "stt" => orchs[0].started - orchs[0].failed <= 1

\* C34: the exchange an answer submission appends, and the entry it adds to
\* the question context, carry the question that was passed to the evaluator
\* for that answer
C34_ExchangePairsTheEvaluatedQuestion ==
    [][\A n \in 1..Len(inflight) :
          (/\ inflight[n].op \in {"submit", "audio"}
           /\ inflight' = RemoveAt(inflight, n)
           /\ last'.op \in {"submit_answer", "submit_audio_answer"}
           /\ inflight[n].o \in DOMAIN orchs')
            => LET after == orchs'[inflight[n].o]
                   exs == after.session[1].exchanges
                   asked == after.question_context[1].previous_questions
               IN /\ exs[Len(exs)].question = inflight[n].question
                  /\ asked[Len(asked)] = inflight[n].question]_vars

\* C35: whenever the record of a session is written again, the exchanges of
\* the record it replaces are a prefix of the exchanges of the new record
C35_PersistedLogOnlyGrows ==
    [][\A path \in DOMAIN files \cap DOMAIN files' :
          IsPrefix(files[path].doc.exchanges, files'[path].doc.exchanges)]_vars

\* C36: every exchange of every session an orchestrator holds has a
\* non-empty question
C36_ExchangesHaveAQuestion ==
    \A id \in DOMAIN orchs :
       orchs[id].session # None =>
         \A i \in 1..Len(orchs[id].session[1].exchanges) :
            orchs[id].session[1].exchanges[i].question # ""

\* C37: a get_next_question or process_answer that raises leaves the session
\* as it was but for its state, and leaves the question context and the
\* values get_session_stats reports as they were
C37_FailedCallChangesOnlyTheState ==
    [][(/\ mode = "direct"
        /\ last'.op \in {"get_next_question", "process_answer"}
        /\ last'.status = "raised"
        /\ orchs[0].session # None)
         => /\ [orchs'[0].session[1] EXCEPT !.state = orchs[0].session[1].state]
                 = orchs[0].session[1]
            /\ orchs'[0].question_context = orchs[0].question_context
            /\ GetSessionStats(orchs'[0]) = GetSessionStats(orchs[0])]_vars

\* C38: for every orchestrator that holds a session, get_session_stats and
\* the session's to_summary_dict give the same questions count, average
\* score, total fillers and average pace
C38_StatsAgreeWithSummary ==
    \A id \in DOMAIN orchs :
       (mode \in {"api", "direct"} /\ orchs[id].session # None) =>
          LET stats == GetSessionStats(orchs[id])
              summary == ToSummaryDict(orchs[id].session[1])
          IN /\ stats.questions_asked = summary.total_questions
             /\ stats.average_score = summary.average_score
             /\ stats.total_fillers = summary.total_filler_words
             /\ stats.average_wpm = summary.average_wpm

\* C39: no operation on a session lowers its total_questions_asked, and a
\* session that enters the live map from its record has the record's count
C39_QuestionCountNeverDecreases ==
    [][/\ \A i \in Kept :
            last'.op # "start_session"
              => orchs'[i].session[1].total_questions_asked
                   >= orchs[i].session[1].total_questions_asked
       /\ \A k \in DOMAIN sessions' \ DOMAIN sessions :
            RepoLoad(files, k) # None
              => orchs'[sessions'[k]].session[1].total_questions_asked
                   >= files[SessionPath(k)].doc.total_questions_asked]_vars

====
